---- MODULE Spec2Model ----
(***************************************************************************)
(* The session layer of the HTTP mode of the ChainsData MCP server         *)
(* (src/src/index.ts, main(), the "--http" branch).                        *)
(*                                                                         *)
(* The registry is three objects keyed by session identifier (transports,  *)
(* servers, sessionTimers).  Request handlers are async functions: each    *)
(* one is cut at the awaits written in the source, and everything between  *)
(* two awaits is one atomic action (single-threaded event loop).           *)
(***************************************************************************)
EXTENDS Integers, FiniteSets, Sequences, TLC

\* ---------------------------------------------------------------- bounds
MaxReq == 3          \* requests received in one run
MaxIds == 2          \* size of the identifier space randomUUID draws from
MaxTicks == 2        \* clock ticks in one run
StackLimit == 3      \* nested close() calls the call stack can hold
MaxCalls == 2        \* saturation of the close-call counters

\* ------------------------------------------------------- program constants
SESSION_TIMEOUT == 30 * 60 * 1000
\* the clock advances in steps of one timeout
TickMs == 30 * 60 * 1000

ReqIds == 1..MaxReq
\* a transport/handler pair is named after the request that constructed it
Pairs == ReqIds
SessionIds == 1..MaxIds

VARIABLES
    transports,     \* sessionId -> transport            (object `transports`)
    servers,        \* sessionId -> protocol handler     (object `servers`)
    sessionTimers,  \* sessionId -> timer handle         (object `sessionTimers`)
    pending,        \* timers armed in the event loop: [sid, deadline]
    tSessionId,     \* transport -> transport.sessionId, once generated
    connected,      \* handlers whose transport is still attached
    closeCalls,     \* transport -> number of close() calls (saturating)
    overflows,      \* close() calls that exhausted the call stack (saturating)
    issued,         \* identifiers generated so far
    now,            \* clock, ms
    reqs,           \* request -> its handler's local state while in flight
    resp,           \* the response sent last: session header of its request,
                    \* what had closed that session on arrival, HTTP status
    lastRequest,    \* live sessionId -> time its timer was last reset by a request
    closedBy,       \* sessionId -> what first asked for its close
    disk,           \* the files the lookups read: token lists and feeds.json
    call,           \* the lookup made last: tool, arguments, result
    firstCall,      \* the first lookup made since the files last changed
    query,          \* the call of findUniswapV3Pools or findAerodromePools
                    \* in progress
    subgraph,       \* the pools the remote data source holds, in the order
                    \* it returns them (total value locked, descending)
    returned,       \* the pool lookups that have ended, with what they gave
    stdio,          \* the process of the stdio mode
    health,         \* what GET /health reported last
    httpd           \* the process of the HTTP mode: whether it listens, the
                    \* signal received, the status of the OPTIONS responses

sessionVars == <<transports, servers, sessionTimers, pending, tSessionId,
                 connected, closeCalls, overflows, issued, now, reqs, resp,
                 lastRequest, closedBy>>
otherVars == <<subgraph, returned, stdio, health, httpd>>
toolVars == <<disk, call, firstCall, query, otherVars>>
vars == <<sessionVars, toolVars>>

\* ----------------------------------------------------------------- helpers
Put(f, k, v) == [x \in (DOMAIN f) \cup {k} |-> IF x = k THEN v ELSE f[x]]
Del(f, k) == [x \in (DOMAIN f) \ {k} |-> f[x]]
Bump(n) == IF n < MaxCalls THEN n + 1 ELSE n
Empty == [x \in {} |-> 0]

\* the mutable objects the synchronous helpers work on
Store == [transports |-> transports, servers |-> servers,
          sessionTimers |-> sessionTimers, pending |-> pending,
          tSessionId |-> tSessionId, connected |-> connected,
          closeCalls |-> closeCalls, overflows |-> overflows]

Install(st) ==
    /\ transports' = st.transports
    /\ servers' = st.servers
    /\ sessionTimers' = st.sessionTimers
    /\ pending' = st.pending
    /\ tSessionId' = st.tSessionId
    /\ connected' = st.connected
    /\ closeCalls' = st.closeCalls
    /\ overflows' = st.overflows

\* ------------------------------------------------------- session helpers

\* resetSessionTimer without the clearTimeout of the stored timer
resetSessionTimer_NoClear(st, sid, t) ==
    [st EXCEPT !.pending = @ \cup {[sid |-> sid, deadline |-> t + SESSION_TIMEOUT]},
               !.sessionTimers = Put(@, sid, t + SESSION_TIMEOUT)]

\* resetSessionTimer(sessionId), called at time t: clear the stored timer,
\* arm a new one SESSION_TIMEOUT later and store its handle.
resetSessionTimer(st, sid, t) ==
    LET cleared == IF sid \in DOMAIN st.sessionTimers
                   THEN st.pending \ {[sid |-> sid, deadline |-> st.sessionTimers[sid]]}
                   ELSE st.pending
        d == t + SESSION_TIMEOUT
    IN  [st EXCEPT !.pending = cleared \cup {[sid |-> sid, deadline |-> d]},
                   !.sessionTimers = Put(@, sid, d)]

RECURSIVE cleanupSession(_, _, _)
RECURSIVE onclose(_, _, _)
RECURSIVE TransportClose(_, _, _)
RECURSIVE ServerClose(_, _, _)

\* an onclose callback that forgets the cleanup
onclose_NoCleanup(st, p, depth) == st

\* cleanupSession that closes the handler but leaves it in `servers`
cleanupSession_KeepServer(st, sid, depth) ==
    LET s1 == IF sid \in DOMAIN st.transports
              THEN LET a == TransportClose(st, st.transports[sid], depth + 1)
                   IN  [a EXCEPT !.transports = Del(@, sid)]
              ELSE st
    IN  IF sid \in DOMAIN s1.sessionTimers
        THEN [s1 EXCEPT !.pending = @ \ {[sid |-> sid, deadline |-> s1.sessionTimers[sid]]},
                        !.sessionTimers = Del(@, sid)]
        ELSE s1

\* cleanupSession that deletes the stored timer without clearTimeout
cleanupSession_KeepTimer(st, sid, depth) ==
    LET s1 == IF sid \in DOMAIN st.transports
              THEN LET a == TransportClose(st, st.transports[sid], depth + 1)
                   IN  [a EXCEPT !.transports = Del(@, sid)]
              ELSE st
        s2 == IF sid \in DOMAIN s1.servers
              THEN LET b == ServerClose(s1, s1.servers[sid], depth + 1)
                   IN  [b EXCEPT !.servers = Del(@, sid)]
              ELSE s1
    IN  [s2 EXCEPT !.sessionTimers = [x \in (DOMAIN @) \ {sid} |-> @[x]]]

\* transport.close(): the transport emits its close event synchronously, so
\* the onclose callback runs inside the call; afterwards the handler is
\* detached.  depth counts the close() frames on the call stack: a call the
\* stack cannot hold throws, and the async close() turns that into a
\* rejected promise nobody awaits.
TransportClose(st, p, depth) ==
    IF depth > StackLimit
    THEN [st EXCEPT !.overflows = Bump(@)]
    ELSE LET s1 == [st EXCEPT !.closeCalls = Put(@, p, Bump(@[p]))]
             s2 == onclose(s1, p, depth)
         IN  [s2 EXCEPT !.connected = @ \ {p}]

\* transport.onclose = () => { if (transport.sessionId) cleanupSession(...) }
onclose(st, p, depth) ==
    IF p \in DOMAIN st.tSessionId
    THEN cleanupSession(st, st.tSessionId[p], depth)
    ELSE st

\* servers[sessionId].close(): the handler closes the transport it is
\* attached to, if any.
ServerClose(st, p, depth) ==
    IF p \in st.connected THEN TransportClose(st, p, depth) ELSE st

\* cleanupSession(sessionId): each entry is closed first and deleted after.
cleanupSession(st, sid, depth) ==
    LET s1 == IF sid \in DOMAIN st.transports
              THEN LET a == TransportClose(st, st.transports[sid], depth + 1)
                   IN  [a EXCEPT !.transports = Del(@, sid)]
              ELSE st
        s2 == IF sid \in DOMAIN s1.servers
              THEN LET b == ServerClose(s1, s1.servers[sid], depth + 1)
                   IN  [b EXCEPT !.servers = Del(@, sid)]
              ELSE s1
    IN  IF sid \in DOMAIN s2.sessionTimers
        THEN [s2 EXCEPT !.pending = @ \ {[sid |-> sid, deadline |-> s2.sessionTimers[sid]]},
                        !.sessionTimers = Del(@, sid)]
        ELSE s2

\* a generator that hands out the first identifier no live session holds
randomUUID_Reuse ==
    {s \in SessionIds \ DOMAIN transports :
        \A u \in SessionIds \ DOMAIN transports : s <= u}

\* a generator that always returns the same identifier
randomUUID_Same == {s \in SessionIds : \A u \in SessionIds : s <= u}

\* sessionIdGenerator: () => randomUUID(): an identifier never drawn before.
\* Identifiers are opaque, so the k-th one drawn is called k.
randomUUID == {s \in SessionIds \ issued : \A u \in SessionIds \ issued : s <= u}

\* `transport` declared outside the handler: the callbacks see the transport
\* constructed last
BoundTransport_Shared(r) ==
    CHOOSE p \in DOMAIN closeCalls : \A q \in DOMAIN closeCalls : q <= p

\* the transport and the handler captured by the callbacks of request r
\* (the handler-local `transport` and `server`)
BoundTransport(r) == r
BoundServer(r) == r

\* onsessioninitialized that stores the pair and arms no idle timer
onsessioninitialized_NoTimer(st, r, sid, t) ==
    [st EXCEPT !.transports = Put(@, sid, r), !.servers = Put(@, sid, r)]

\* onsessioninitialized(sessionId)
onsessioninitialized(st, r, sid, t) ==
    resetSessionTimer([st EXCEPT !.transports = Put(@, sid, BoundTransport(r)),
                                 !.servers = Put(@, sid, BoundServer(r))],
                      sid, t)

\* ================================================================ lookups
\* The functions the tool handlers call.  A string the code inspects
\* (symbols, pairs, feed chain names) is a sequence of characters; a name
\* that is only used as a key or printed (token chain, list) is a string.

MaxTerms == 2        \* query terms in one lookup

\* ------------------------------------------------------------ JS strings
UpperToLower == ("U" :> "u") @@ ("S" :> "s") @@ ("D" :> "d") @@ ("C" :> "c")
                @@ ("A" :> "a") @@ ("I" :> "i") @@ ("E" :> "e") @@ ("T" :> "t")
                @@ ("H" :> "h")

\* String.prototype.toLowerCase that leaves every character as it is
toLowerCase_Identity(s) == s

\* String.prototype.toLowerCase
toLowerCase(s) ==
    [i \in 1..Len(s) |-> IF s[i] \in DOMAIN UpperToLower
                         THEN UpperToLower[s[i]] ELSE s[i]]

RECURSIVE trimStart(_)
trimStart(s) == IF s # <<>> /\ s[1] = " " THEN trimStart(Tail(s)) ELSE s
RECURSIVE trimEnd(_)
trimEnd(s) == IF s # <<>> /\ s[Len(s)] = " "
              THEN trimEnd(SubSeq(s, 1, Len(s) - 1)) ELSE s
\* String.prototype.trim
trim(s) == trimEnd(trimStart(s))

\* Array.prototype.join(", ")
RECURSIVE join(_)
join(list) == IF list = <<>> THEN <<>>
              ELSE IF Len(list) = 1 THEN list[1]
              ELSE list[1] \o <<",", " ">> \o join(Tail(list))

\* ------------------------------------------------------------ JS objects
\* obj[key] on an object literal: an own property, else a member inherited
\* from Object.prototype, else undefined
ObjectPrototype == {"constructor", "toString", "valueOf", "hasOwnProperty"}
Get(obj, key) ==
    IF key \in DOMAIN obj THEN [kind |-> "own", value |-> obj[key]]
    ELSE IF key \in ObjectPrototype THEN [kind |-> "inherited", value |-> 0]
    ELSE [kind |-> "undefined", value |-> 0]
\* !v is false
Truthy(v) == v.kind = "inherited" \/ (v.kind = "own" /\ v.value # 0)

\* ------------------------------------------------------------ token lists
chainMapping == ("Ethereum" :> 1) @@ ("BNB Smart Chain" :> 56)
                @@ ("Gnosis" :> 100) @@ ("Polygon" :> 137)
                @@ ("Arbitrum" :> 42161) @@ ("Base" :> 8453)

\* a parameter the caller may leave out: a set of at most one value
Default(arg, dflt) == IF arg = {} THEN dflt ELSE CHOOSE a \in arg : TRUE

Thrown(msg, reads) ==
    [threw |-> TRUE, error |-> msg, items |-> <<>>, notFound |-> {},
     reads |-> reads]
\* a result whose notFound field is set also when nothing is missing
Returned_AlwaysNotFound(items, notFoundList, reads) ==
    [threw |-> FALSE, error |-> "", items |-> items,
     notFound |-> {join(notFoundList)}, reads |-> reads]

Returned(items, notFoundList, reads) ==
    [threw |-> FALSE, error |-> "", items |-> items,
     notFound |-> IF Len(notFoundList) > 0 THEN {join(notFoundList)} ELSE {},
     reads |-> reads]

\* fs.readFileSync of `${listName}.${chainId}.json`: the file exists when
\* the chain id is a number and the directory holds that list for it
FileExists(d, listName, chainId) ==
    chainId.kind = "own" /\ <<listName, chainId.value>> \in d.tokenFiles

\* readTokenList(listName, chainId) of the HTTP server: a failed read is
\* rethrown with the message "Failed to read token list ..."
readTokenList(d, listName, chainId) ==
    IF FileExists(d, listName, chainId)
    THEN [threw |-> FALSE, error |-> "", tokens |-> d.catalog]
    ELSE [threw |-> TRUE, error |-> "Failed to read token list", tokens |-> <<>>]

\* readTokenList of the serverless handler: the fs error is thrown as it is
readTokenList_serverless(d, listName, chainId) ==
    IF FileExists(d, listName, chainId)
    THEN [threw |-> FALSE, error |-> "", tokens |-> d.catalog]
    ELSE [threw |-> TRUE, error |-> "ENOENT", tokens |-> <<>>]

\* tokens.find((t) => t.symbol.toLowerCase() === symbol.toLowerCase()):
\* the first entry that matches, as a set of at most one entry
RECURSIVE find(_, _)
find(tokens, symbol) ==
    IF tokens = <<>> THEN {}
    ELSE IF toLowerCase(tokens[1].symbol) = toLowerCase(symbol)
         THEN {tokens[1]}
         ELSE find(Tail(tokens), symbol)

\* the loop `for (const symbol of symbols)`; skipBlank is the test
\* `symbol.trim() === ""` that only the HTTP server makes
RECURSIVE MatchLoop(_, _, _, _, _)
MatchLoop(symbols, tokens, found, notFound, skipBlank) ==
    IF symbols = <<>> THEN [found |-> found, notFound |-> notFound]
    ELSE LET symbol == Head(symbols)
             token == find(tokens, symbol)
         IN  IF (skipBlank /\ trim(symbol) = <<>>) \/ token = {}
             THEN MatchLoop(Tail(symbols), tokens, found,
                            Append(notFound, symbol), skipBlank)
             ELSE MatchLoop(Tail(symbols), tokens,
                            Append(found, CHOOSE t \in token : TRUE),
                            notFound, skipBlank)

\* findTokensBySymbols(symbols, chain, list) of the HTTP server
findTokensBySymbols(d, symbols, chainArg, listArg) ==
    LET chain == Default(chainArg, "Ethereum")
        list == Default(listArg, "Coingecko")
        chainId == Get(chainMapping, chain)
        tokenList == readTokenList(d, list, chainId)
    IN  IF symbols = <<>> THEN Thrown("Symbols array cannot be empty", 0)
        ELSE IF ~Truthy(chainId) THEN Thrown("Unsupported chain", 0)
        ELSE IF tokenList.threw THEN Thrown(tokenList.error, 1)
        ELSE LET m == MatchLoop(symbols, tokenList.tokens, <<>>, <<>>, TRUE)
             IN  Returned(m.found, m.notFound, 1)

\* findTokensBySymbols of the serverless handler (and of the first HTTP
\* server): no test of the list of symbols, no test of the chain
findTokensBySymbols_serverless(d, symbols, chainArg, listArg) ==
    LET chain == Default(chainArg, "Ethereum")
        list == Default(listArg, "Coingecko")
        chainId == Get(chainMapping, chain)
        tokenList == readTokenList_serverless(d, list, chainId)
    IN  IF tokenList.threw THEN Thrown(tokenList.error, 1)
        ELSE LET m == MatchLoop(symbols, tokenList.tokens, <<>>, <<>>, FALSE)
             IN  Returned(m.found, m.notFound, 1)

\* ------------------------------------------------------------ feeds.json
\* readFeedsData()
readFeedsData(d) ==
    IF d.feeds.readable
    THEN [threw |-> FALSE, error |-> "", entries |-> d.feeds.entries]
    ELSE [threw |-> TRUE, error |-> "Failed to read feeds.json", entries |-> <<>>]

\* feedsData[chainName]: the entry of that chain, as a set of at most one
\* (the names drawn here are not members of Object.prototype)
RECURSIVE ChainData(_, _)
ChainData(entries, chainName) ==
    IF entries = <<>> THEN {}
    ELSE IF entries[1].chain = chainName THEN {entries[1]}
    ELSE ChainData(Tail(entries), chainName)

\* feeds.find((f) => f.name.toLowerCase() === pair.toLowerCase()), the
\* feed found being copied with its chain name
RECURSIVE findFeed(_, _, _)
findFeed(feeds, pair, chainName) ==
    IF feeds = <<>> THEN {}
    ELSE IF toLowerCase(feeds[1].name) = toLowerCase(pair)
         THEN {[name |-> feeds[1].name, proxyAddress |-> feeds[1].proxyAddress,
                chain |-> chainName]}
         ELSE findFeed(Tail(feeds), pair, chainName)

\* a search that goes through every chain and keeps the last one that has
\* the pair
RECURSIVE findInAnyChain_NoBreak(_, _)
findInAnyChain_NoBreak(entries, pair) ==
    IF entries = <<>> THEN {}
    ELSE LET later == findInAnyChain_NoBreak(Tail(entries), pair)
         IN  IF later # {} THEN later
             ELSE findFeed(entries[1].feeds, pair, entries[1].chain)

\* `for (const [chainName, chainData] of Object.entries(feedsData))` with
\* its `break` at the first chain that has the pair
RECURSIVE findInAnyChain(_, _)
findInAnyChain(entries, pair) ==
    IF entries = <<>> THEN {}
    ELSE LET feed == findFeed(entries[1].feeds, pair, entries[1].chain)
         IN  IF feed # {} THEN feed ELSE findInAnyChain(Tail(entries), pair)

\* a loop that ends at the first blank pair
RECURSIVE FeedLoop_StopAtBlank(_, _, _, _)
FeedLoop_StopAtBlank(pairs, scope, found, notFound) ==
    IF pairs = <<>> THEN [found |-> found, notFound |-> notFound]
    ELSE LET pair == Head(pairs)
             feed == findInAnyChain(scope, pair)
         IN  IF trim(pair) = <<>>
             THEN [found |-> found, notFound |-> Append(notFound, pair)]
             ELSE IF feed = {}
             THEN FeedLoop_StopAtBlank(Tail(pairs), scope, found,
                                       Append(notFound, pair))
             ELSE FeedLoop_StopAtBlank(Tail(pairs), scope,
                                       Append(found, CHOOSE f \in feed : TRUE),
                                       notFound)

\* the loop `for (const pair of pairs)` of either branch: scope is the
\* entries searched, one entry when a chain was given
RECURSIVE FeedLoop(_, _, _, _)
FeedLoop(pairs, scope, found, notFound) ==
    IF pairs = <<>> THEN [found |-> found, notFound |-> notFound]
    ELSE LET pair == Head(pairs)
             feed == findInAnyChain(scope, pair)
         IN  IF trim(pair) = <<>> \/ feed = {}
             THEN FeedLoop(Tail(pairs), scope, found, Append(notFound, pair))
             ELSE FeedLoop(Tail(pairs), scope,
                           Append(found, CHOOSE f \in feed : TRUE), notFound)

\* a feed lookup that reads feeds.json and resolves the chain before it
\* looks at the list of pairs
getFeedAddresses_ReadFirst(d, pairs, chainArg) ==
    LET feedsData == readFeedsData(d)
        chain == Default(chainArg, <<>>)
        normalizedChain == toLowerCase(chain)
        chainData == ChainData(feedsData.entries, normalizedChain)
    IN  IF feedsData.threw THEN Thrown(feedsData.error, 1)
        ELSE IF chain # <<>> /\ chainData = {}
        THEN Thrown("Unsupported chain", 1)
        ELSE IF pairs = <<>> THEN Thrown("Pairs array cannot be empty", 1)
        ELSE LET scope == IF chain # <<>>
                          THEN <<CHOOSE e \in chainData : TRUE>>
                          ELSE feedsData.entries
                 m == FeedLoop(pairs, scope, <<>>, <<>>)
             IN  Returned(m.found, m.notFound, 1)

\* getFeedAddresses(pairs, chain)
getFeedAddresses(d, pairs, chainArg) ==
    LET feedsData == readFeedsData(d)
        chain == Default(chainArg, <<>>)
        normalizedChain == toLowerCase(chain)
        chainData == ChainData(feedsData.entries, normalizedChain)
    IN  IF pairs = <<>> THEN Thrown("Pairs array cannot be empty", 0)
        ELSE IF feedsData.threw THEN Thrown(feedsData.error, 1)
        ELSE IF chain # <<>>
        THEN IF chainData = {} THEN Thrown("Unsupported chain", 1)
             ELSE LET m == FeedLoop(pairs, <<CHOOSE e \in chainData : TRUE>>,
                                    <<>>, <<>>)
                  IN  Returned(m.found, m.notFound, 1)
        ELSE LET m == FeedLoop(pairs, feedsData.entries, <<>>, <<>>)
             IN  Returned(m.found, m.notFound, 1)

\* ------------------------------------------------------------ pool queries
supportedUniswapChains == {"Ethereum", "Polygon", "Base", "Arbitrum"}

\* querySubgraph(query, variables, chainSubgraphId, retries = 3)
retries == 3

\* a backoff that does not grow
BackoffMs_Constant(attempt) == 1000

\* the delay of `setTimeout(resolve, 1000 * Math.pow(2, attempt - 1))`
BackoffMs(attempt) == 1000 * 2 ^ (attempt - 1)

\* a validation that does not trim
Validate_NoTrim(tool, token0, token1, chain) ==
    IF token0 = <<>> \/ token1 = <<>>
    THEN "Both token0 and token1 parameters are required"
    ELSE IF tool = "getUniswapV3Pools" /\ chain \notin supportedUniswapChains
    THEN "Uniswap V3 not supported"
    ELSE ""

\* the tests findUniswapV3Pools and findAerodromePools make before they
\* query: the message of what they throw, "" when they throw nothing.
\* findAerodromePools takes no chain.
Validate(tool, token0, token1, chain) ==
    IF token0 = <<>> \/ token1 = <<>>
    THEN "Both token0 and token1 parameters are required"
    ELSE IF trim(token0) = <<>> \/ trim(token1) = <<>>
    THEN "Token parameters cannot be empty"
    ELSE IF tool = "getUniswapV3Pools" /\ chain \notin supportedUniswapChains
    THEN "Uniswap V3 not supported"
    ELSE ""

\* a filter that lets a pool of exactly 1000 pass
AboveThreshold_AtLeast(pool) ==
    \E cents \in pool.totalValueLockedUSD : cents >= 1000 * 100

\* parseFloat(pool.totalValueLockedUSD) > 1000, the value being held in
\* cents and an unparsable one (NaN) as no value
AboveThreshold(pool) == \E cents \in pool.totalValueLockedUSD : cents > 1000 * 100

\* pools.filter(...)
filteredPools(pools) == SelectSeq(pools, AboveThreshold)

\* a pool query nobody has made
IdleQuery ==
    [pc |-> "idle", tool |-> "none", token0 |-> <<>>, token1 |-> <<>>,
     chain |-> "", attempt |-> 0, sent |-> 0, waits |-> <<>>,
     received |-> <<>>, outcome |-> {}]

\* what find*Pools throws: its own message around what it caught
PoolsThrown(msg, cause, last) ==
    [threw |-> TRUE, error |-> msg, cause |-> cause, last |-> last,
     data |-> {}, pools |-> <<>>]

\* the catch block of querySubgraph that waits before it looks at the
\* attempt number
Caught_WaitFirst(q, response) ==
    LET waited == [q EXCEPT !.received = Append(@, response),
                            !.waits = Append(@, BackoffMs(q.attempt))]
    IN  IF q.attempt = retries
        THEN [waited EXCEPT !.pc = "done",
                  !.outcome = {PoolsThrown("Failed to fetch pools",
                                           "Failed to query subgraph after attempts",
                                           response.kind)}]
        ELSE [waited EXCEPT !.pc = "waiting"]

\* the catch block of querySubgraph: an attempt failed
Caught(q, response) ==
    IF q.attempt = retries
    THEN [q EXCEPT !.pc = "done", !.received = Append(@, response),
              !.outcome = {PoolsThrown("Failed to fetch pools",
                                       "Failed to query subgraph after attempts",
                                       response.kind)}]
    ELSE [q EXCEPT !.pc = "waiting", !.received = Append(@, response),
              !.waits = Append(@, BackoffMs(q.attempt))]

\* querySubgraph returns the body of an attempt; find*Pools reads
\* response.data.pools, which throws when the body has no data
Returns(q, response) ==
    [q EXCEPT !.pc = "done", !.received = Append(@, response),
         !.outcome =
            {IF response.kind = "nodata"
             THEN PoolsThrown("Failed to fetch pools",
                              "Cannot read properties of undefined", "nodata")
             ELSE [threw |-> FALSE, error |-> "", cause |-> "", last |-> "",
                   data |-> {response},
                   pools |-> filteredPools(response.pools),
                   metadata |->
                      [chain |-> q.chain,
                       totalResults |-> Len(filteredPools(response.pools))]]}]

\* a try block that returns a body with errors like any other body
Attempt_ErrorsReturned(q, response) ==
    IF response.kind \in {"ok", "nodata", "graphql"} THEN Returns(q, response)
    ELSE Caught(q, response)

\* one pass of the try block of querySubgraph on the response of a fetch:
\* a rejected fetch, a non-ok status and a body with errors are thrown
Attempt(q, response) ==
    IF response.kind \in {"ok", "nodata"} THEN Returns(q, response)
    ELSE Caught(q, response)

\* ------------------------------------------------------- the pools query
\* the GraphQL filter `symbol_contains_nocase` / `name_contains_nocase`:
\* needle occurs in hay, letter case ignored
contains_nocase(hay, needle) ==
    \E i \in 1..(Len(hay) - Len(needle) + 1) :
        SubSeq(toLowerCase(hay), i, i + Len(needle) - 1) = toLowerCase(needle)

\* a token of a pool matches a term by its symbol or by its name
TokenMatches(token, symbolTerm, nameTerm) ==
    \/ contains_nocase(token.symbol, symbolTerm)
    \/ contains_nocase(token.name, nameTerm)

\* a `where` that matches the terms against the sides as they are given only
where_OneWay(pool, v) ==
    /\ TokenMatches(pool.token0, v.token0Symbol, v.token0Name)
    /\ TokenMatches(pool.token1, v.token1Symbol, v.token1Name)

\* the `where` of UNISWAP_V3_POOLS_QUERY and of AERODROME_POOLS_QUERY: an `or`
\* of two `and`s, the second with the terms the other way round
where(pool, v) ==
    \/ /\ TokenMatches(pool.token0, v.token0Symbol, v.token0Name)
       /\ TokenMatches(pool.token1, v.token1Symbol, v.token1Name)
    \/ /\ TokenMatches(pool.token0, v.token1Symbol, v.token1Name)
       /\ TokenMatches(pool.token1, v.token0Symbol, v.token0Name)

\* `first: 100` of the Uniswap query, `first: 50` of the Aerodrome query
first(tool) == IF tool = "getUniswapV3Pools" THEN 100 ELSE 50

\* the variables find*Pools sends: both terms trimmed, each as symbol and name
Variables(q) ==
    [token0Symbol |-> trim(q.token0), token1Symbol |-> trim(q.token1),
     token0Name |-> trim(q.token0), token1Name |-> trim(q.token1)]

\* the body the data source answers the query of q with: the pools of data
\* that pass the `where`, in the order of data, at most `first` of them
Selected(data, q) ==
    LET passes(pool) == where(pool, Variables(q))
        matching == SelectSeq(data, passes)
    IN  [kind |-> "ok",
         pools |-> IF Len(matching) > first(q.tool)
                   THEN SubSeq(matching, 1, first(q.tool)) ELSE matching]

\* what is kept of a pool lookup that has ended
Ended(q) ==
    [tool |-> q.tool, token0 |-> q.token0, token1 |-> q.token1,
     chain |-> q.chain, threw |-> \E o \in q.outcome : o.threw,
     pools |-> IF \E o \in q.outcome : ~o.threw
               THEN (CHOOSE o \in q.outcome : TRUE).pools ELSE <<>>]

\* ---------------------------------------------------------- tool handlers
\* o is the outcome of the function a handler calls: o.threw says whether it
\* threw, o.error is the message of what it threw

\* a handler whose catch block returns the message without the error mark
toolHandler_NoMark(o) ==
    [threw |-> FALSE, isError |-> FALSE,
     content |-> IF o.threw THEN [error |-> o.error] ELSE o]

\* the handler the HTTP server registers for each tool:
\* try { return {content} } catch { return {content: {error}, isError: true} }
toolHandler(o) ==
    IF o.threw
    THEN [threw |-> FALSE, isError |-> TRUE, content |-> [error |-> o.error]]
    ELSE [threw |-> FALSE, isError |-> FALSE, content |-> o]

\* the handler of the serverless entry point and of the first HTTP server:
\* no try, so what the lookup throws leaves the handler
toolHandler_serverless(o) ==
    IF o.threw
    THEN [threw |-> TRUE, isError |-> FALSE, content |-> [error |-> o.error]]
    ELSE [threw |-> FALSE, isError |-> FALSE, content |-> o]

EntryPoints == {"http", "serverless"}
RegisteredHandler(entry, o) ==
    IF entry = "http" THEN toolHandler(o) ELSE toolHandler_serverless(o)

\* server.registerTool(name, config, cb): McpServer answers tools/call with
\* what cb returns, and with an error-marked result when cb throws
CallTool(h) ==
    IF h.threw
    THEN [threw |-> FALSE, isError |-> TRUE, content |-> h.content]
    ELSE h

\* what the client gets of a tool result: nothing once the transport of the
\* call was closed, as no stream is left to send it on
Delivered(st, p, result) ==
    IF st.closeCalls[p] > 0 THEN "discarded"
    ELSE IF result.threw THEN "fault"
    ELSE IF result.isError THEN "error"
    ELSE "result"

\* --------------------------------------------------------- lookup inputs
usdc == <<"u", "s", "d", "c">>
USDC == <<"U", "S", "D", "C">>
UsDc == <<"U", "s", "D", "c">>
Dai == <<"D", "a", "i">>
dai == <<"d", "a", "i">>
ETH == <<"E", "T", "H">>
Terms == {usdc, USDC, UsDc, dai, ETH, <<>>, <<" ">>}

\* lists of at most n terms
RECURSIVE TermLists(_)
TermLists(n) ==
    IF n = 0 THEN {<<>>}
    ELSE TermLists(n - 1)
         \cup {Append(l, t) : l \in {k \in TermLists(n - 1) : Len(k) = n - 1},
                              t \in Terms}

Token(symbol, address) == [symbol |-> symbol, address |-> address]
\* token lists: symbols are not blank; two entries may differ only in case
Catalogs ==
    {<<>>,
     <<Token(USDC, 1)>>,
     <<Token(USDC, 1), Token(Dai, 3)>>,
     <<Token(Dai, 3), Token(usdc, 2), Token(USDC, 1)>>}
TokenDirs == {{}, {<<"Coingecko", 1>>, <<"Coingecko", 8453>>}}

Feed(name, proxyAddress) == [name |-> name, proxyAddress |-> proxyAddress]
ethusd == <<"E", "T", "H", "/", "U", "S", "D">>
daiusd == <<"D", "A", "I", "/", "U", "S", "D">>
FeedTerms == {ethusd, toLowerCase(ethusd), daiusd, <<" ">>}
FeedChains == {{}, {<<"e", "t", "h">>}, {<<"E", "t", "h">>}, {<<"d", "a", "i">>}}
NoFeeds == [readable |-> FALSE, entries |-> <<>>]
TwoChains ==
    [readable |-> TRUE,
     entries |-> <<[chain |-> <<"e", "t", "h">>, feeds |-> <<Feed(ethusd, 1)>>],
                   [chain |-> <<"u", "s", "d">>,
                    feeds |-> <<Feed(ethusd, 2), Feed(daiusd, 3)>>]>>]
FeedFiles == {NoFeeds, TwoChains}

\* the working directory: the token-list files it holds (every one of them
\* with the same tokens) and feeds.json
Disks ==
    {[tokenFiles |-> dir, catalog |-> c, feeds |-> f] :
        dir \in TokenDirs, c \in Catalogs, f \in FeedFiles}

Chains == {{}, {"Base"}, {"Mars"}, {"constructor"}}
Lists == {{}, {"Nope"}}

\* no lookup made
NoCall ==
    [pc |-> "none", tool |-> "none", entry |-> "http", sid |-> {},
     terms |-> <<>>, chain |-> {}, list |-> {}, feedChain |-> {},
     outcome |-> {}, result |-> {}]
\* getTokensBySymbols({symbols, chain, list}) was called
TokensCalled(entry, symbols, chain, list) ==
    [NoCall EXCEPT !.pc = "called", !.tool = "getTokensBySymbols",
                   !.entry = entry, !.terms = symbols, !.chain = chain,
                   !.list = list]
\* getFeedAddresses({pairs, chain}) was called
FeedsCalled(pairs, chain) ==
    [NoCall EXCEPT !.pc = "called", !.tool = "getFeedAddresses",
                   !.terms = pairs, !.feedChain = chain]

\* a lookup that collects what it finds in an array shared by all calls
Lookup_Accumulating(d, c) ==
    LET r == IF c.tool = "getFeedAddresses"
             THEN getFeedAddresses(d, c.terms, c.feedChain)
             ELSE findTokensBySymbols(d, c.terms, c.chain, c.list)
        kept == IF call.pc = "returned"
                THEN (CHOOSE o \in call.outcome : TRUE).items ELSE <<>>
    IN  IF r.threw THEN r ELSE [r EXCEPT !.items = kept \o @]

\* the lookup a call makes
Lookup(d, c) ==
    IF c.tool = "getFeedAddresses"
    THEN getFeedAddresses(d, c.terms, c.feedChain)
    ELSE IF c.entry = "http"
         THEN findTokensBySymbols(d, c.terms, c.chain, c.list)
         ELSE findTokensBySymbols_serverless(d, c.terms, c.chain, c.list)

\* the call c made against the files d has returned
Answered(d, c) ==
    [c EXCEPT !.pc = "returned",
              !.outcome = {Lookup(d, c)},
              !.result = {CallTool(RegisteredHandler(c.entry, Lookup(d, c)))}]

\* the stdio mode was not started: no handler instance, no transport, no
\* request read
NoProcess ==
    [pc |-> "off", instances |-> 0, connects |-> 0, closed |-> FALSE,
     signal |-> {}, exitCode |-> {}, arrived |-> <<>>, suspended |-> {},
     written |-> <<>>]

\* app.listen(port, "0.0.0.0") has been called: the HTTP server accepts
\* connections, no signal was received, no OPTIONS request was answered
Listening == [pc |-> "listening", signal |-> {}, preflight |-> {}]

\* no remote data, no pool lookup made, no stdio process, no health report,
\* the HTTP server listening
OthersIdle ==
    /\ subgraph = <<>>
    /\ returned = {}
    /\ stdio = NoProcess
    /\ health = {}
    /\ httpd = Listening

\* the tool layer at rest
ToolIdle ==
    /\ disk = [tokenFiles |-> {}, catalog |-> <<>>, feeds |-> NoFeeds]
    /\ call = NoCall
    /\ firstCall = NoCall
    /\ query = IdleQuery
    /\ OthersIdle

\* ------------------------------------------------------------ bookkeeping

Blank(pc) == [pc |-> pc, method |-> "POST", sid |-> {}, init |-> FALSE,
              pair |-> {}, late |-> "none"]

\* requests are numbered in arrival order
Fresh(r) == reqs[r].pc = "new" /\ \A q \in ReqIds : q < r => reqs[q].pc # "new"

\* what had closed the session a header names, when the request arrived
Late(hdr) == IF \E s \in hdr : closedBy[s] # "none"
             THEN CHOOSE c \in {closedBy[s] : s \in hdr} : TRUE
             ELSE "none"

\* the handler of r suspends at an await
Suspend(r, pc, m, hdr, isInit, pair) ==
    /\ reqs' = [reqs EXCEPT ![r] = [pc |-> pc, method |-> m, sid |-> hdr,
                                    init |-> isInit, pair |-> pair,
                                    late |-> Late(hdr)]]
    /\ UNCHANGED resp

\* the response of a request that made no tool call
NoTool == [failed |-> FALSE, got |-> "none"]

\* the handler of r returns after a response was sent; tool says whether the
\* tool call the request made failed and what the client got of its result,
\* isInit whether the body of the request was an initialization request
Answer(r, hdr, late, status, tool, isInit) ==
    /\ reqs' = [reqs EXCEPT ![r] = Blank("done")]
    /\ resp' = [sid |-> hdr, late |-> late, status |-> status, tool |-> tool,
                init |-> isInit]

\* the response to a request whose handler was suspended, or whose body was
\* not looked at
RespondTool(r, hdr, late, status, tool) ==
    Answer(r, hdr, late, status, tool, reqs[r].init)

\* the handler of r sends a response that carries no tool result
Respond(r, hdr, late, status) == RespondTool(r, hdr, late, status, NoTool)

\* a close of the session of target (a set of at most one identifier) was
\* asked for: remember the first cause, forget its activity time
NoteClosed(target, cause) ==
    /\ closedBy' = [s \in SessionIds |->
                      IF s \in target /\ closedBy[s] = "none"
                      THEN cause ELSE closedBy[s]]
    /\ lastRequest' = [s \in (DOMAIN lastRequest) \ target |-> lastRequest[s]]

SidOf(p) == IF p \in DOMAIN tSessionId THEN {tSessionId[p]} ELSE {}

\* ------------------------------------------------------------------ Init

SessionInit ==
    /\ transports = Empty
    /\ servers = Empty
    /\ sessionTimers = Empty
    /\ pending = {}
    /\ tSessionId = Empty
    /\ connected = {}
    /\ closeCalls = Empty
    /\ overflows = 0
    /\ issued = {}
    /\ now = 0
    /\ reqs = [r \in ReqIds |-> Blank("new")]
    /\ resp = [sid |-> {}, late |-> "none", status |-> 0, tool |-> NoTool,
               init |-> FALSE]
    /\ lastRequest = Empty
    /\ closedBy = [s \in SessionIds |-> "none"]

Init == SessionInit /\ ToolIdle

\* --------------------------------------------------------------- actions

\* a server that serves no request while a pool query waits for its backoff
PostKnown_Blocked(r, sid, isInit) ==
    /\ query.pc # "waiting"
    /\ Fresh(r)
    /\ sid \in DOMAIN transports
    /\ Install(resetSessionTimer(Store, sid, now))
    /\ Suspend(r, "handling", "POST", {sid}, isInit, {transports[sid]})
    /\ lastRequest' = Put(lastRequest, sid, now)
    /\ UNCHANGED <<issued, now, closedBy>>

\* app.post("/mcp"), first branch (known session), up to
\* `await transport.handleRequest(req, res, req.body)`
PostKnown(r, sid, isInit) ==
    /\ Fresh(r)
    /\ sid \in DOMAIN transports
    /\ Install(resetSessionTimer(Store, sid, now))
    /\ Suspend(r, "handling", "POST", {sid}, isInit, {transports[sid]})
    /\ lastRequest' = Put(lastRequest, sid, now)
    /\ UNCHANGED <<issued, now, closedBy>>

\* app.post("/mcp"), second branch, up to `await server.connect(transport)`:
\* a handler and a transport are constructed and attached to each other
PostInit(r) ==
    /\ Fresh(r)
    /\ connected' = connected \cup {r}
    /\ closeCalls' = Put(closeCalls, r, 0)
    /\ Suspend(r, "connecting", "POST", {}, TRUE, {r})
    /\ UNCHANGED <<transports, servers, sessionTimers, pending, tSessionId,
                   overflows, issued, now, lastRequest, closedBy>>

\* a third branch that starts a session under the identifier the client sent
\* when the body is an initialization request
PostReject_Register(r, hdr, isInit) ==
    /\ Fresh(r)
    /\ ~(\E s \in hdr : s \in DOMAIN transports)
    /\ ~(hdr = {} /\ isInit)
    /\ IF isInit
       THEN \E s \in hdr :
              Install(onsessioninitialized(
                  [Store EXCEPT !.tSessionId = Put(@, r, s),
                                !.connected = @ \cup {r},
                                !.closeCalls = Put(@, r, 0)], r, s, now))
       ELSE UNCHANGED <<transports, servers, sessionTimers, pending,
                        tSessionId, connected, closeCalls, overflows>>
    /\ Answer(r, hdr, Late(hdr), IF isInit THEN 200 ELSE 400, NoTool, isInit)
    /\ UNCHANGED <<issued, now, lastRequest, closedBy>>

\* a third branch without the `!sessionId` test in front of it: an
\* initialization request that names an unknown session starts a session
PostReject_InitStarts(r, hdr, isInit) ==
    /\ Fresh(r)
    /\ ~(\E s \in hdr : s \in DOMAIN transports)
    /\ ~(hdr = {} /\ isInit)
    /\ IF isInit
       THEN /\ connected' = connected \cup {r}
            /\ closeCalls' = Put(closeCalls, r, 0)
            /\ Suspend(r, "connecting", "POST", hdr, TRUE, {r})
       ELSE /\ Answer(r, hdr, Late(hdr), 400, NoTool, isInit)
            /\ UNCHANGED <<connected, closeCalls>>
    /\ UNCHANGED <<transports, servers, sessionTimers, pending, tSessionId,
                   overflows, issued, now, lastRequest, closedBy>>

\* app.post("/mcp"), third branch: 400
PostReject(r, hdr, isInit) ==
    /\ Fresh(r)
    /\ ~(\E s \in hdr : s \in DOMAIN transports)
    /\ ~(hdr = {} /\ isInit)
    /\ Answer(r, hdr, Late(hdr), 400, NoTool, isInit)
    /\ UNCHANGED <<transports, servers, sessionTimers, pending, tSessionId,
                   connected, closeCalls, overflows, issued, now, lastRequest,
                   closedBy>>

\* transport.handleRequest for the initialization request: the transport
\* generates the identifier and calls onsessioninitialized, then the
\* handler suspends while the initialize message is answered
Handshake(r, sid) ==
    /\ reqs[r].pc = "connecting"
    /\ sid \in randomUUID
    /\ Install(onsessioninitialized(
                 [Store EXCEPT !.tSessionId = Put(@, r, sid)], r, sid, now))
    /\ issued' = issued \cup {sid}
    /\ reqs' = [reqs EXCEPT ![r].pc = "handling"]
    /\ lastRequest' = Put(lastRequest, sid, now)
    /\ UNCHANGED <<now, closedBy, resp>>

\* transport.handleRequest refuses the initialization request before a
\* session exists (a POST that does not accept the response content types)
HandshakeReject(r) ==
    /\ reqs[r].pc = "connecting"
    /\ Respond(r, {}, "none", 406)
    /\ UNCHANGED <<transports, servers, sessionTimers, pending, tSessionId,
                   connected, closeCalls, overflows, issued, now, lastRequest,
                   closedBy>>

\* handleSessionRequest that resets the timer before it looks the session up
handleSessionRequest_ResetFirst(r, m, hdr) ==
    /\ Fresh(r)
    /\ hdr # {}
    /\ \E s \in hdr :
         /\ Install(resetSessionTimer(Store, s, now))
         /\ IF s \in DOMAIN transports
            THEN /\ Suspend(r, "handling", m, hdr, FALSE, {transports[s]})
                 /\ lastRequest' = Put(lastRequest, s, now)
            ELSE /\ Respond(r, hdr, Late(hdr), 400)
                 /\ UNCHANGED lastRequest
    /\ UNCHANGED <<issued, now, closedBy>>

\* a handleSessionRequest that takes a removed session back into the registry
\* when a request names it and its transport object still exists
handleSessionRequest_Revive(r, m, hdr) ==
    /\ Fresh(r)
    /\ IF \E s \in hdr : s \in DOMAIN transports
       THEN \E s \in hdr :
              /\ Install(resetSessionTimer(Store, s, now))
              /\ Suspend(r, "handling", m, hdr, FALSE, {transports[s]})
              /\ lastRequest' = Put(lastRequest, s, now)
       ELSE IF \E s \in hdr, p \in DOMAIN tSessionId : tSessionId[p] = s
       THEN \E s \in hdr, p \in DOMAIN tSessionId :
              /\ tSessionId[p] = s
              /\ Install(resetSessionTimer(
                     [Store EXCEPT !.transports = Put(@, s, p),
                                   !.servers = Put(@, s, p)], s, now))
              /\ Suspend(r, "handling", m, hdr, FALSE, {p})
              /\ lastRequest' = Put(lastRequest, s, now)
       ELSE /\ Respond(r, hdr, Late(hdr), 400)
            /\ UNCHANGED <<transports, servers, sessionTimers, pending,
                           tSessionId, connected, closeCalls, overflows,
                           lastRequest>>
    /\ UNCHANGED <<issued, now, closedBy>>

\* handleSessionRequest (GET and DELETE), up to
\* `await transport.handleRequest(req, res)`
handleSessionRequest(r, m, hdr) ==
    /\ Fresh(r)
    /\ IF \E s \in hdr : s \in DOMAIN transports
       THEN \E s \in hdr :
              /\ Install(resetSessionTimer(Store, s, now))
              /\ Suspend(r, "handling", m, hdr, FALSE, {transports[s]})
              /\ lastRequest' = Put(lastRequest, s, now)
       ELSE /\ Respond(r, hdr, Late(hdr), 400)
            /\ UNCHANGED <<transports, servers, sessionTimers, pending,
                           tSessionId, connected, closeCalls, overflows,
                           lastRequest>>
    /\ UNCHANGED <<issued, now, closedBy>>

\* a DELETE that is answered without closing the transport
Complete_NoClose(r) ==
    /\ reqs[r].pc = "handling"
    /\ IF reqs[r].method = "DELETE"
       THEN \E p \in reqs[r].pair : NoteClosed(SidOf(p), "delete")
       ELSE UNCHANGED <<closedBy, lastRequest>>
    /\ Respond(r, reqs[r].sid, reqs[r].late, 200)
    /\ UNCHANGED <<transports, servers, sessionTimers, pending, tSessionId,
                   connected, closeCalls, overflows, issued, now>>

\* a handler that resets the idle timer again after the await
Complete_RefreshAfter(r) ==
    /\ reqs[r].pc = "handling"
    /\ LET st == IF reqs[r].method = "DELETE"
                 THEN TransportClose(Store, CHOOSE p \in reqs[r].pair : TRUE, 1)
                 ELSE Store
       IN  IF reqs[r].sid = {}
           THEN Install(st)
           ELSE Install(resetSessionTimer(st, CHOOSE s \in reqs[r].sid : TRUE, now))
    /\ IF reqs[r].method = "DELETE"
       THEN \E p \in reqs[r].pair : NoteClosed(SidOf(p), "delete")
       ELSE UNCHANGED <<closedBy, lastRequest>>
    /\ Respond(r, reqs[r].sid, reqs[r].late, 200)
    /\ UNCHANGED <<issued, now>>

\* the rest of `await transport.handleRequest(...)`: a DELETE closes the
\* transport, every other request is answered by the transport (200 stands
\* for whatever it answers) without touching the registry.  A POST on a
\* session is a tools/call: its handler was suspended on what it calls, which
\* now returns or throws.
Complete(r) ==
    /\ reqs[r].pc = "handling"
    /\ IF reqs[r].method = "DELETE"
       THEN \E p \in reqs[r].pair :
              /\ Install(TransportClose(Store, p, 1))
              /\ NoteClosed(SidOf(p), "delete")
              /\ Respond(r, reqs[r].sid, reqs[r].late, 200)
       ELSE /\ UNCHANGED <<transports, servers, sessionTimers, pending,
                           tSessionId, connected, closeCalls, overflows,
                           closedBy, lastRequest>>
            /\ IF reqs[r].method = "POST" /\ ~reqs[r].init
               THEN \E p \in reqs[r].pair, entry \in EntryPoints,
                       threw \in BOOLEAN :
                      RespondTool(r, reqs[r].sid, reqs[r].late, 200,
                          [failed |-> threw,
                           got |-> Delivered(Store, p,
                                    CallTool(RegisteredHandler(entry,
                                      [threw |-> threw, error |-> "failed"])))])
               ELSE Respond(r, reqs[r].sid, reqs[r].late, 200)
    /\ UNCHANGED <<issued, now>>

\* an eviction that also ends the handlers suspended on the session
Expire_Abort(sid, d) ==
    /\ [sid |-> sid, deadline |-> d] \in pending
    /\ d <= now
    /\ Install(cleanupSession(
                 [Store EXCEPT !.pending = @ \ {[sid |-> sid, deadline |-> d]}],
                 sid, 0))
    /\ NoteClosed({sid}, "idle")
    /\ reqs' = [r \in ReqIds |->
                  IF reqs[r].pc = "handling" /\ reqs[r].sid = {sid}
                  THEN Blank("done") ELSE reqs[r]]
    /\ UNCHANGED <<issued, now, resp>>

\* the idle timer of sid fires: cleanupSession(sessionId)
Expire(sid, d) ==
    /\ [sid |-> sid, deadline |-> d] \in pending
    /\ d <= now
    /\ Install(cleanupSession(
                 [Store EXCEPT !.pending = @ \ {[sid |-> sid, deadline |-> d]}],
                 sid, 0))
    /\ NoteClosed({sid}, "idle")
    /\ UNCHANGED <<issued, now, reqs, resp>>

\* the transport of a session reports closure on its own (the connection
\* dropped)
TransportClosed(p) ==
    /\ p \in DOMAIN tSessionId
    /\ closeCalls[p] = 0
    /\ Install(TransportClose(Store, p, 1))
    /\ NoteClosed(SidOf(p), "transport")
    /\ UNCHANGED <<issued, now, reqs, resp>>

\* time passes; a timer that is due fires before the clock moves on
Tick ==
    /\ now < MaxTicks * TickMs
    /\ \A t \in pending : t.deadline > now
    /\ now' = now + TickMs
    /\ UNCHANGED <<transports, servers, sessionTimers, pending, tSessionId,
                   connected, closeCalls, overflows, issued, reqs, resp,
                   lastRequest, closedBy>>

\* a /health that counts the identifiers ever generated
Health_CountsIssued ==
    /\ health' = {Cardinality(issued)}
    /\ UNCHANGED <<sessionVars, disk, call, firstCall, query, subgraph,
                   returned, stdio, httpd>>

\* app.get("/health"): activeSessions = Object.keys(transports).length; the
\* other fields of the report are constants of the program
Health ==
    /\ health' = {Cardinality(DOMAIN transports)}
    /\ UNCHANGED <<sessionVars, disk, call, firstCall, query, subgraph,
                   returned, stdio, httpd>>

Headers == {{}} \cup {{s} : s \in SessionIds}

Next ==
    \/ \E r \in ReqIds, sid \in SessionIds, i \in BOOLEAN :
          PostKnown(r, sid, i) /\ UNCHANGED toolVars
    \/ \E r \in ReqIds : PostInit(r) /\ UNCHANGED toolVars
    \/ \E r \in ReqIds, h \in Headers, i \in BOOLEAN :
          PostReject(r, h, i) /\ UNCHANGED toolVars
    \/ \E r \in ReqIds, sid \in SessionIds :
          Handshake(r, sid) /\ UNCHANGED toolVars
    \/ \E r \in ReqIds : HandshakeReject(r) /\ UNCHANGED toolVars
    \/ \E r \in ReqIds, m \in {"GET", "DELETE"}, h \in Headers :
          handleSessionRequest(r, m, h) /\ UNCHANGED toolVars
    \/ \E r \in ReqIds : Complete(r) /\ UNCHANGED toolVars
    \/ \E t \in pending : Expire(t.sid, t.deadline) /\ UNCHANGED toolVars
    \/ \E p \in Pairs : TransportClosed(p) /\ UNCHANGED toolVars
    \/ Tick /\ UNCHANGED toolVars
    \/ Health

Spec == Init /\ [][Next]_vars

\* ============================================ the process of the HTTP mode

\* the process has not exited: the requests of the connections that are open
\* are served, the timers fire
Serving == httpd.pc # "exited"

\* what an OPTIONS request carries as its body: nothing, JSON text, or text
\* sent as application/json that is not JSON
Bodies == {"none", "json", "malformed"}

\* app.use(express.json()) in front of every route: a body that is not JSON
\* makes the parser call next(error), which skips to the error middleware
\* (500); any other request goes on to the next middleware
jsonParser(body) == IF body = "malformed" THEN {500} ELSE {}

\* an OPTIONS request: the body parser, then the CORS middleware, which sets
\* the headers, answers 200 and does not call next()
Options(hdr, body) ==
    /\ Serving
    /\ hdr \in Headers
    /\ httpd' = [httpd EXCEPT !.preflight =
                    IF jsonParser(body) # {} THEN jsonParser(body) ELSE {200}]
    /\ UNCHANGED <<sessionVars, disk, call, firstCall, query, subgraph,
                   returned, stdio, health>>

\* Object.keys(transports).forEach((sessionId) => cleanupSession(sessionId)):
\* keys is the snapshot of the identifiers taken before the loop, in
\* insertion order
RECURSIVE CleanupAll(_, _)
CleanupAll(st, keys) ==
    IF keys = {} THEN st
    ELSE LET s == CHOOSE k \in keys : \A j \in keys : k <= j
         IN  CleanupAll(cleanupSession(st, s, 0), keys \ {s})

\* the listener of SIGINT and SIGTERM: every session of the registry is
\* cleaned up, then server.close(callback) stops the listening socket.  The
\* connections that are open stay open and their requests are served.
Shutdown(sig) ==
    /\ httpd.pc \in {"listening", "closing"}
    /\ Install(CleanupAll(Store, DOMAIN transports))
    /\ NoteClosed(DOMAIN transports, "shutdown")
    /\ httpd' = [httpd EXCEPT !.pc = "closing", !.signal = {sig}]
    /\ UNCHANGED <<issued, now, reqs, resp, disk, call, firstCall, query,
                   subgraph, returned, stdio, health>>

\* the callback of server.close runs once no connection is left, hence when
\* no request is being served: process.exit(0)
ServerClosed ==
    /\ httpd.pc = "closing"
    /\ \A r \in ReqIds : reqs[r].pc \in {"new", "done"}
    /\ httpd' = [httpd EXCEPT !.pc = "exited"]
    /\ UNCHANGED <<sessionVars, disk, call, firstCall, query, subgraph,
                   returned, stdio, health>>

HttpNext ==
    \/ \E r \in ReqIds, sid \in SessionIds, i \in BOOLEAN :
          Serving /\ PostKnown(r, sid, i) /\ UNCHANGED toolVars
    \/ \E r \in ReqIds : Serving /\ PostInit(r) /\ UNCHANGED toolVars
    \/ \E r \in ReqIds, h \in Headers, i \in BOOLEAN :
          Serving /\ PostReject(r, h, i) /\ UNCHANGED toolVars
    \/ \E r \in ReqIds, sid \in SessionIds :
          Serving /\ Handshake(r, sid) /\ UNCHANGED toolVars
    \/ \E r \in ReqIds : Serving /\ HandshakeReject(r) /\ UNCHANGED toolVars
    \/ \E r \in ReqIds, m \in {"GET", "DELETE"}, h \in Headers :
          Serving /\ handleSessionRequest(r, m, h) /\ UNCHANGED toolVars
    \/ \E r \in ReqIds : Serving /\ Complete(r) /\ UNCHANGED toolVars
    \/ \E t \in pending :
          Serving /\ Expire(t.sid, t.deadline) /\ UNCHANGED toolVars
    \/ \E p \in Pairs : Serving /\ TransportClosed(p) /\ UNCHANGED toolVars
    \/ Serving /\ Tick /\ UNCHANGED toolVars
    \/ \E h \in Headers, body \in Bodies : Options(h, body)
    \/ \E sig \in {"SIGINT", "SIGTERM"} : Shutdown(sig)
    \/ ServerClosed

\* the HTTP server from app.listen to process.exit
HttpSpec == Init /\ [][HttpNext]_vars

\* ===================================================== pool query steps
PoolTools == {"getUniswapV3Pools", "getAerodromePools"}
PoolTokens == {ETH, <<" ", "D", "a", "i">>, <<" ">>, <<>>}
PoolChains == {{}, {"Base"}, {"Gnosis"}, {"Mars"}}

Pool(id, tvl) == [id |-> id, totalValueLockedUSD |-> tvl]
Payloads ==
    {<<>>,
     <<Pool(1, {1000 * 100 + 1}), Pool(2, {1000 * 100})>>,
     <<Pool(3, {}), Pool(1, {2500 * 100})>>,
     <<Pool(2, {3000 * 100}), Pool(4, {500 * 100}), Pool(1, {2500 * 100})>>}
\* what a fetch can come to: a body with pools, a body without data, a
\* rejected fetch, a status that is not ok, a body with errors
Responses ==
    {[kind |-> "ok", pools |-> p] : p \in Payloads}
    \cup {[kind |-> k, pools |-> <<>>] :
             k \in {"nodata", "network", "http", "graphql"}}

\* findUniswapV3Pools(token0, token1, chain) / findAerodromePools(token0,
\* token1) up to the first `await fetch(...)`: the call has thrown, or its
\* first request is sent
StartQuery(tool, token0, token1, chainArg) ==
    LET chain == IF tool = "getAerodromePools" THEN "Base"
                 ELSE Default(chainArg, "Ethereum")
        invalid == Validate(tool, token0, token1, chain)
        called == [IdleQuery EXCEPT !.tool = tool, !.token0 = token0,
                                    !.token1 = token1, !.chain = chain]
    IN  IF invalid # ""
        THEN [called EXCEPT !.pc = "done",
                            !.outcome = {PoolsThrown(invalid, "", "")}]
        ELSE [called EXCEPT !.pc = "fetching", !.attempt = 1, !.sent = 1]

findPools(tool, token0, token1, chainArg) ==
    /\ query.pc = "idle"
    /\ tool = "getAerodromePools" => chainArg = {}
    /\ query' = StartQuery(tool, token0, token1, chainArg)
    /\ UNCHANGED <<sessionVars, disk, call, firstCall, otherVars>>

\* the fetch of the current attempt settles
FetchSettles(response) ==
    /\ query.pc = "fetching"
    /\ query' = Attempt(query, response)
    /\ UNCHANGED <<sessionVars, disk, call, firstCall, otherVars>>

\* the backoff timer fires: the loop sends the request of the next attempt
BackoffElapses ==
    /\ query.pc = "waiting"
    /\ query' = [query EXCEPT !.pc = "fetching", !.attempt = @ + 1,
                              !.sent = @ + 1]
    /\ UNCHANGED <<sessionVars, disk, call, firstCall, otherVars>>

PoolNext ==
    \/ \E tool \in PoolTools, token0 \in PoolTokens, token1 \in PoolTokens,
          chainArg \in PoolChains : findPools(tool, token0, token1, chainArg)
    \/ \E response \in Responses : FetchSettles(response)
    \/ BackoffElapses

\* one pool query, from the call to its result
PoolSpec == Init /\ [][PoolNext]_vars

\* ============================================ pool lookups against one data set
UniswapV3Token(symbol, name) == [symbol |-> symbol, name |-> name]
UniswapV3Pool(id, token0, token1, tvl) ==
    [id |-> id, token0 |-> token0, token1 |-> token1,
     totalValueLockedUSD |-> tvl]
Ether == UniswapV3Token(ETH, <<"E", "t", "h", "e", "r">>)
UsdCoin == UniswapV3Token(USDC, <<"U", "S", "D", " ", "C", "o", "i", "n">>)
DaiCoin == UniswapV3Token(<<"D", "A", "I">>, Dai)
\* what the data source may hold: any part of these pools, in this order
AllPools ==
    <<UniswapV3Pool(1, Ether, UsdCoin, {5000 * 100}),
      UniswapV3Pool(2, UsdCoin, Ether, {3000 * 100}),
      UniswapV3Pool(3, DaiCoin, Ether, {2000 * 100}),
      UniswapV3Pool(4, DaiCoin, UsdCoin, {500 * 100})>>
Keep(ids) == LET kept(pool) == pool.id \in ids IN SelectSeq(AllPools, kept)
Subgraphs == {Keep(ids) : ids \in SUBSET {1, 2, 3, 4}}
PairTerms == {ETH, <<"u", "s", "d">>, <<" ", "D", "a", "i">>,
              <<"c", "o", "i", "n">>}
PairChains == {{}, {"Base"}}

\* the lookup q was made with the arguments of e the other way round
SwapOf(q, e) ==
    /\ q.tool = e.tool /\ q.chain = e.chain
    /\ q.token0 = e.token1 /\ q.token1 = e.token0

PairInit ==
    /\ SessionInit
    /\ disk = [tokenFiles |-> {}, catalog |-> <<>>, feeds |-> NoFeeds]
    /\ call = NoCall
    /\ firstCall = NoCall
    /\ query = IdleQuery
    /\ subgraph \in Subgraphs
    /\ returned = {}
    /\ stdio = NoProcess
    /\ health = {}
    /\ httpd = Listening

\* the fetch of the current attempt settles: the data source answers the
\* query, or the request fails on the way
SubgraphAnswers(failure) ==
    /\ query.pc = "fetching"
    /\ query' = Attempt(query, IF failure = {} THEN Selected(subgraph, query)
                               ELSE [kind |-> CHOOSE k \in failure : TRUE,
                                     pools |-> <<>>])
    /\ returned' = IF query'.pc = "done" THEN returned \cup {Ended(query')}
                   ELSE returned
    /\ UNCHANGED <<sessionVars, disk, call, firstCall, subgraph, stdio, health,
                   httpd>>

\* the client repeats the lookup that ended last with token0 and token1
\* exchanged
findPoolsSwapped ==
    /\ query.pc = "done"
    /\ \A e \in returned : ~SwapOf(e, query)
    /\ query' = [IdleQuery EXCEPT !.tool = query.tool, !.chain = query.chain,
                                  !.token0 = query.token1,
                                  !.token1 = query.token0,
                                  !.pc = "fetching", !.attempt = 1, !.sent = 1]
    /\ UNCHANGED <<sessionVars, disk, call, firstCall, otherVars>>

PairNext ==
    \/ \E tool \in PoolTools, token0 \in PairTerms, token1 \in PairTerms,
          chainArg \in PairChains : findPools(tool, token0, token1, chainArg)
    \/ \E failure \in {{}, {"network"}} : SubgraphAnswers(failure)
    \/ BackoffElapses
    \/ findPoolsSwapped

\* a pool lookup and the same lookup with its terms exchanged, both against
\* one data set
PairSpec == PairInit /\ [][PairNext]_vars

\* ========================================================= lookup steps
TokenCalls ==
    {TokensCalled(entry, terms, chain, list) :
        entry \in EntryPoints, terms \in TermLists(MaxTerms),
        chain \in Chains, list \in Lists}
FeedCalls ==
    {FeedsCalled(pairs, chain) :
        pairs \in {<<>>} \cup {<<a>> : a \in FeedTerms}
                         \cup {<<a, b>> : a \in FeedTerms, b \in FeedTerms},
        chain \in FeedChains}

\* a tool call arrives: any token lookup against any token directory, any
\* feed lookup against any feeds.json
LookupInit ==
    /\ SessionInit
    /\ \/ /\ call \in TokenCalls
          /\ disk \in {d \in Disks : d.feeds = NoFeeds}
       \/ /\ call \in FeedCalls
          /\ disk \in {d \in Disks : d.tokenFiles = {} /\ d.catalog = <<>>}
    /\ firstCall = NoCall
    /\ query = IdleQuery
    /\ OthersIdle

\* the getTokensBySymbols handler runs (it does not suspend)
TokenLookup ==
    /\ call.pc = "called" /\ call.tool = "getTokensBySymbols"
    /\ call' = Answered(disk, call)
    /\ UNCHANGED <<sessionVars, disk, firstCall, query, otherVars>>

\* the getFeedAddresses handler runs
FeedLookup ==
    /\ call.pc = "called" /\ call.tool = "getFeedAddresses"
    /\ call' = Answered(disk, call)
    /\ UNCHANGED <<sessionVars, disk, firstCall, query, otherVars>>

LookupNext == TokenLookup \/ FeedLookup

\* one lookup, over every input
LookupSpec == LookupInit /\ [][LookupNext]_vars

\* ================================================ lookups, one after another
\* the server after two clients have initialized a session each
TwoSessions ==
    /\ transports = (1 :> 1) @@ (2 :> 2)
    /\ servers = (1 :> 1) @@ (2 :> 2)
    /\ sessionTimers = (1 :> SESSION_TIMEOUT) @@ (2 :> SESSION_TIMEOUT)
    /\ pending = {[sid |-> s, deadline |-> SESSION_TIMEOUT] : s \in {1, 2}}
    /\ tSessionId = (1 :> 1) @@ (2 :> 2)
    /\ connected = {1, 2}
    /\ closeCalls = (1 :> 0) @@ (2 :> 0)
    /\ overflows = 0
    /\ issued = {1, 2}
    /\ now = 0
    /\ reqs = [r \in ReqIds |-> IF r \in {1, 2} THEN Blank("done") ELSE Blank("new")]
    /\ resp = [sid |-> {}, late |-> "none", status |-> 200, tool |-> NoTool,
               init |-> FALSE]
    /\ lastRequest = (1 :> 0) @@ (2 :> 0)
    /\ closedBy = [s \in SessionIds |-> "none"]

SomeCalls ==
    {TokensCalled(entry, terms, chain, {}) :
        entry \in EntryPoints, terms \in {<<usdc>>, <<ETH, USDC>>},
        chain \in {{}, {"Mars"}}}
    \cup {FeedsCalled(pairs, chain) :
             pairs \in {<<ethusd>>, <<daiusd, <<" ">>>>},
             chain \in {{}, {<<"u", "s", "d">>}}}
SomeDisks ==
    {[tokenFiles |-> {}, catalog |-> <<>>, feeds |-> NoFeeds],
     [tokenFiles |-> {<<"Coingecko", 1>>}, catalog |-> <<Token(USDC, 1)>>,
      feeds |-> TwoChains],
     [tokenFiles |-> {<<"Coingecko", 1>>},
      catalog |-> <<Token(usdc, 2), Token(USDC, 1)>>, feeds |-> NoFeeds]}

CallsInit ==
    /\ TwoSessions
    /\ disk \in SomeDisks
    /\ call = NoCall
    /\ firstCall = NoCall
    /\ query = IdleQuery
    /\ OthersIdle

\* a tools/call for a lookup arrives on session sid and its handler runs:
\* the lookups read their file synchronously, so the handler runs in one step
LookupBy(sid, c) ==
    /\ sid \in DOMAIN transports
    /\ call' = Answered(disk, [c EXCEPT !.sid = {sid}])
    /\ firstCall' = IF firstCall = NoCall THEN call' ELSE firstCall
    /\ UNCHANGED <<sessionVars, disk, query, otherVars>>

\* somebody replaces the files; which lookup was the first is counted anew
FilesChange(d) ==
    /\ d # disk
    /\ disk' = d
    /\ firstCall' = NoCall
    /\ UNCHANGED <<sessionVars, call, query, otherVars>>

CallsNext ==
    \/ \E sid \in SessionIds, c \in SomeCalls : LookupBy(sid, c)
    \/ \E d \in SomeDisks : FilesChange(d)
    \/ \E t \in pending : Expire(t.sid, t.deadline) /\ UNCHANGED toolVars
    \/ Tick /\ UNCHANGED toolVars

\* lookups made one after another by two sessions that may expire meanwhile
CallsSpec == CallsInit /\ [][CallsNext]_vars

\* ================================== a pool query while other sessions call
\* a tools/call for a pool tool arrives on session sid and its handler runs
\* up to the first fetch; `call` keeps whose call it is
PoolCallBy(sid, tool, token0, token1) ==
    /\ sid \in DOMAIN transports
    /\ query.pc \in {"idle", "done"}
    /\ query' = StartQuery(tool, token0, token1, {})
    /\ call' = [NoCall EXCEPT !.pc = "called", !.tool = tool, !.sid = {sid}]
    /\ UNCHANGED <<sessionVars, disk, firstCall, otherVars>>

\* what a fetch comes to here: it fails on the way, or a body arrives
BusyResponses == {[kind |-> k, pools |-> <<>>] : k \in {"network", "ok"}}

BusyInit ==
    /\ TwoSessions
    /\ ToolIdle

BusyNext ==
    \/ \E sid \in SessionIds, tool \in PoolTools :
          PoolCallBy(sid, tool, ETH, Dai)
    \/ \E response \in BusyResponses : FetchSettles(response)
    \/ BackoffElapses
    \/ \E r \in ReqIds, sid \in SessionIds, i \in BOOLEAN :
          PostKnown(r, sid, i) /\ UNCHANGED toolVars
    \/ \E r \in ReqIds, m \in {"GET", "DELETE"}, h \in Headers :
          handleSessionRequest(r, m, h) /\ UNCHANGED toolVars
    \/ \E r \in ReqIds : Complete(r) /\ UNCHANGED toolVars
    \/ \E t \in pending : Expire(t.sid, t.deadline) /\ UNCHANGED toolVars
    \/ Tick /\ UNCHANGED toolVars

\* two sessions, one of which makes pool queries while requests arrive on
\* both
BusySpec == BusyInit /\ [][BusyNext]_vars

\* ============================================================ the stdio mode
\* main(), the branch without "--http": one handler, one StdioServerTransport.
\* The transport hands every message it reads to the handler, which starts
\* the tool handler of each request without waiting for the one before it
\* and writes a response when a tool handler has returned.
MaxMsgs == 3         \* requests read from stdin in one run

\* what a request calls: a lookup (its handler does not suspend) or a pool
\* query (its handler suspends on fetch and on the backoff timer)
RequestKinds == {"lookup", "pools"}

\* `const server = createServer(); const transport = new
\* StdioServerTransport()`, the two process.on(...) and the call of
\* server.connect(transport), up to its await
StartStdio ==
    /\ stdio.pc = "off"
    /\ stdio' = [stdio EXCEPT !.pc = "connecting", !.instances = @ + 1]
    /\ UNCHANGED <<sessionVars, disk, call, firstCall, query, subgraph,
                   returned, health, httpd>>

\* `await server.connect(transport)` returns: the handler is bound to the
\* transport, which reads stdin from now on
Connected ==
    /\ stdio.pc = "connecting"
    /\ stdio' = [stdio EXCEPT !.pc = "running", !.connects = @ + 1]
    /\ UNCHANGED <<sessionVars, disk, call, firstCall, query, subgraph,
                   returned, health, httpd>>

\* server.connect rejects: the catch of main() exits with code 1
ConnectFails ==
    /\ stdio.pc = "connecting"
    /\ stdio' = [stdio EXCEPT !.pc = "exited", !.exitCode = {1}]
    /\ UNCHANGED <<sessionVars, disk, call, firstCall, query, subgraph,
                   returned, health, httpd>>

\* a request is read from stdin and its tool handler is started; a handler
\* that does not suspend has returned, and its response is written, before
\* the next message is read
Arrives(kind) ==
    /\ stdio.pc = "running"
    /\ Len(stdio.arrived) < MaxMsgs
    /\ LET k == Len(stdio.arrived) + 1
       IN  stdio' = IF kind = "pools"
                    THEN [stdio EXCEPT !.arrived = Append(@, kind),
                                       !.suspended = @ \cup {k}]
                    ELSE [stdio EXCEPT !.arrived = Append(@, kind),
                                       !.written = Append(@, k)]
    /\ UNCHANGED <<sessionVars, disk, call, firstCall, query, subgraph,
                   returned, health, httpd>>

\* the pool query of request k ends: its handler returns and the response
\* is written
Resumes(k) ==
    /\ stdio.pc = "running"
    /\ k \in stdio.suspended
    /\ stdio' = [stdio EXCEPT !.suspended = @ \ {k},
                              !.written = Append(@, k)]
    /\ UNCHANGED <<sessionVars, disk, call, firstCall, query, subgraph,
                   returned, health, httpd>>

\* a signal handler that exits without closing the transport
Signal_ExitOnly(sig) ==
    /\ stdio.pc \in {"connecting", "running"}
    /\ stdio' = [stdio EXCEPT !.pc = "closing", !.signal = {sig}]
    /\ UNCHANGED <<sessionVars, disk, call, firstCall, query, subgraph,
                   returned, health, httpd>>

\* process.on("SIGINT" / "SIGTERM", async () => {...}) up to the await:
\* transport.close() has run
Signal(sig) ==
    /\ stdio.pc \in {"connecting", "running"}
    /\ stdio' = [stdio EXCEPT !.pc = "closing", !.signal = {sig},
                              !.closed = TRUE]
    /\ UNCHANGED <<sessionVars, disk, call, firstCall, query, subgraph,
                   returned, health, httpd>>

\* the rest of the signal handler: process.exit(0)
Exits ==
    /\ stdio.pc = "closing"
    /\ stdio' = [stdio EXCEPT !.pc = "exited", !.exitCode = {0}]
    /\ UNCHANGED <<sessionVars, disk, call, firstCall, query, subgraph,
                   returned, health, httpd>>

StdioNext ==
    \/ StartStdio
    \/ Connected
    \/ ConnectFails
    \/ \E kind \in RequestKinds : Arrives(kind)
    \/ \E k \in 1..MaxMsgs : Resumes(k)
    \/ \E sig \in {"SIGINT", "SIGTERM"} : Signal(sig)
    \/ Exits

StdioSpec == Init /\ [][StdioNext]_vars

\* ------------------------------------------------------------- properties

\* no entry, no stored timer and no armed timer exists for s
Absent(s) ==
    /\ s \notin DOMAIN transports
    /\ s \notin DOMAIN servers
    /\ s \notin DOMAIN sessionTimers
    /\ \A t \in pending : t.sid # s

\* the three objects and the armed timers agree on s before and after a step
SameEntry(s) ==
    /\ (s \in DOMAIN transports) = (s \in DOMAIN transports')
    /\ (s \in DOMAIN servers) = (s \in DOMAIN servers')
    /\ (s \in DOMAIN sessionTimers) = (s \in DOMAIN sessionTimers')
    /\ s \in DOMAIN transports /\ s \in DOMAIN transports'
          => transports'[s] = transports[s]
    /\ s \in DOMAIN servers /\ s \in DOMAIN servers'
          => servers'[s] = servers[s]
    /\ s \in DOMAIN sessionTimers /\ s \in DOMAIN sessionTimers'
          => sessionTimers'[s] = sessionTimers[s]
    /\ {t \in pending : t.sid = s} = {t \in pending' : t.sid = s}

\* request r is answered on arrival / handed to a transport / starts a session
Rejected(r) == reqs[r].pc = "new" /\ reqs'[r].pc = "done"
Routed(r) == reqs[r].pc = "new" /\ reqs'[r].pc = "handling"
Started(r) == reqs[r].pc = "new" /\ reqs'[r].pc = "connecting"
\* the handshake of initialization request r ends, with or without a session
HandshakeEnds(r) == reqs[r].pc = "connecting" /\ reqs'[r].pc # "connecting"

\* the step adds exactly one key to the registry, never issued before
OneNewSession(r) ==
    \E s \in SessionIds \ issued :
        /\ s \notin DOMAIN transports
        /\ DOMAIN transports' = DOMAIN transports \cup {s}
        /\ DOMAIN servers' = DOMAIN servers \cup {s}
        /\ transports'[s] = r
        /\ servers'[s] = r
        /\ s \in issued'

\* C1 as stated: a POST /mcp without a session identifier whose body is an
\* initialization request creates exactly one new session, under a key that
\* differs from every identifier issued earlier.
C1_EveryInitCreatesSession ==
    [][\A r \in ReqIds : HandshakeEnds(r) => OneNewSession(r)]_vars

\* C1 as amended: such a request adds at most one key to the registry, and
\* exactly one when the transport completes the handshake; that key was never
\* issued before, also not to a session that is closed by now.  No other
\* step adds a key.
C1_InitCreatesOneFreshSession ==
    [][/\ \A r \in ReqIds :
            HandshakeEnds(r) =>
                IF reqs'[r].pc = "handling"
                THEN reqs[r].sid = {} /\ reqs[r].init /\ OneNewSession(r)
                ELSE DOMAIN transports' = DOMAIN transports
       /\ DOMAIN transports' \ DOMAIN transports # {}
            => \E r \in ReqIds : HandshakeEnds(r)]_vars

\* a session was created after an earlier one had been closed
C1_Witness ==
    \E s \in DOMAIN transports :
        \E u \in issued : u < s /\ u \notin DOMAIN transports

\* C2: a live session never outlives 30 minutes without a request: its idle
\* timer fires and removes it, and every request that arrives with the
\* identifier afterwards is answered 400.
C2_IdleSessionExpires ==
    /\ \A s \in DOMAIN transports :
          s \in DOMAIN lastRequest /\ now <= lastRequest[s] + SESSION_TIMEOUT
    /\ \A s \in SessionIds : closedBy[s] = "idle" => Absent(s)
    /\ resp.late = "idle" => resp.status = 400

\* a request arrived with the identifier of an expired session
C2_Witness == resp.late = "idle" /\ resp.status = 400 /\ now >= SESSION_TIMEOUT

\* C3: a request that carries a known identifier re-arms that session's idle
\* timer for 30 minutes from its arrival, replacing the armed one, before the
\* transport handles it; so the idle timer never evicts a session earlier
\* than 30 minutes after its latest request.
C3_RequestResetsTimer ==
    [][/\ \A r \in ReqIds :
            Routed(r) =>
                \E s \in reqs'[r].sid :
                    /\ s \in DOMAIN sessionTimers'
                    /\ sessionTimers'[s] = now + SESSION_TIMEOUT
                    /\ {t \in pending' : t.sid = s}
                         = {[sid |-> s, deadline |-> now + SESSION_TIMEOUT]}
       /\ \A s \in SessionIds :
            closedBy[s] = "none" /\ closedBy'[s] = "idle"
                => /\ s \in DOMAIN lastRequest
                   /\ now >= lastRequest[s] + SESSION_TIMEOUT]_vars

\* a session refreshed after its creation was evicted for idleness
C3_Witness ==
    \E s \in SessionIds : closedBy[s] = "idle" /\ now = 2 * SESSION_TIMEOUT
                          /\ resp.sid = {s} /\ resp.status = 200

\* C4: while an identifier stays in the registry the transport and handler
\* stored for it do not change, they are the pair whose handshake issued the
\* identifier, and every request carrying it is handed to that transport.
C4_LiveEntryNeverChanges ==
    [][/\ \A s \in DOMAIN transports :
            /\ transports[s] \in DOMAIN tSessionId
            /\ tSessionId[transports[s]] = s
            /\ s \in DOMAIN transports'
                 => /\ transports'[s] = transports[s]
                    /\ s \in DOMAIN servers /\ s \in DOMAIN servers'
                    /\ servers'[s] = servers[s]
       /\ \A r \in ReqIds :
            Routed(r) => \E s \in reqs'[r].sid : reqs'[r].pair = {transports[s]}]_vars

\* a request is in flight on a session while a second session is live
C4_Witness ==
    \E r \in ReqIds, s \in DOMAIN transports :
        /\ reqs[r].pc = "handling" /\ reqs[r].sid = {s}
        /\ reqs[r].pair = {transports[s]}
        /\ \E u \in DOMAIN transports : u # s

C7_CloseCallbackCleansUp ==
    [][\A p \in DOMAIN tSessionId :
          closeCalls'[p] > closeCalls[p] =>
              /\ tSessionId[p] \notin DOMAIN transports'
              /\ tSessionId[p] \notin DOMAIN servers'
              /\ tSessionId[p] \notin DOMAIN sessionTimers'
              /\ \A t \in pending' : t.sid # tSessionId[p]
              /\ \A u \in SessionIds \ {tSessionId[p]} : SameEntry(u)]_vars

\* a transport reported closure while another session was live
C7_Witness ==
    \E s \in SessionIds :
        closedBy[s] = "transport" /\ Absent(s) /\ DOMAIN transports # {}

\* C8: once a DELETE carrying a known identifier has been handled the
\* identifier is in none of the three objects, and every request that arrives
\* with it afterwards is answered 400.
C8_DeleteTerminates ==
    /\ \A s \in SessionIds : closedBy[s] = "delete" => Absent(s)
    /\ resp.late = "delete" => resp.status = 400

\* a request arrived with the identifier of a terminated session
C8_Witness == resp.late = "delete" /\ resp.status = 400

\* C9: once a close of a session has run (termination request, transport
\* closure or idle timer), the session has no entry and no armed timer,
\* whether a request that refreshed it ran before the close, is still in
\* flight, or arrives after it.
C9_ClosedWins ==
    /\ \A s \in SessionIds : closedBy[s] # "none" => Absent(s)
    /\ resp.late # "none" => resp.status = 400

\* a request that refreshed the session is still in flight after its close
C9_Witness ==
    \E r \in ReqIds, s \in SessionIds :
        /\ reqs[r].pc = "handling" /\ reqs[r].method # "DELETE"
        /\ reqs[r].sid = {s}
        /\ closedBy[s] # "none"

\* C10: sessions of different initialization requests have different
\* identifiers, and a session nothing has closed is in the registry with the
\* transport and handler of its own request and an armed timer, whatever
\* happened to the others.
C10_IndependentSessions ==
    /\ \A p, q \in DOMAIN tSessionId : p # q => tSessionId[p] # tSessionId[q]
    /\ \A p \in DOMAIN tSessionId :
          closedBy[tSessionId[p]] = "none" =>
              /\ tSessionId[p] \in DOMAIN transports
              /\ tSessionId[p] \in DOMAIN servers
              /\ transports[tSessionId[p]] = p
              /\ servers[tSessionId[p]] = p
              /\ \E t \in pending : t.sid = tSessionId[p]

\* the request that arrived second finished its handshake first, one of the
\* two sessions has been closed and the other is live
C10_Witness ==
    \E p, q \in DOMAIN tSessionId :
        /\ p < q /\ tSessionId[q] < tSessionId[p]
        /\ closedBy[tSessionId[p]] # "none"
        /\ tSessionId[q] \in DOMAIN transports
        /\ transports[tSessionId[q]] = q

\* the handler of request r, which carried the identifier s, takes a step:
\* the request arrives, or the transport finishes handling it
StepOfRequestWith(r, s) ==
    \/ /\ reqs[r].pc = "new"
       /\ \/ reqs'[r].pc = "handling" /\ reqs'[r].sid = {s}
          \/ reqs'[r].pc = "done" /\ resp'.sid = {s}
    \/ /\ reqs[r].pc = "handling" /\ reqs[r].sid = {s}
       /\ reqs'[r].pc = "done"

SuspendedOn(r, s) ==
    /\ reqs[r].pc = "handling" /\ reqs[r].method = "POST"
    /\ reqs[r].sid = {s} /\ ~reqs[r].init

\* C12: the eviction of a session leaves a tool handler suspended on it as
\* it is (nothing cancels it); the handler can still complete, and when it
\* does its result is discarded, the session stays out of the registry and
\* no idle timer is armed for it.
C12_EvictionLeavesHandlerRunning ==
    [][\A r \in ReqIds, s \in SessionIds :
          SuspendedOn(r, s) =>
              /\ (closedBy[s] = "none" /\ closedBy'[s] # "none")
                    => reqs'[r] = reqs[r]
              /\ closedBy[s] # "none" =>
                    /\ ENABLED Complete(r)
                    /\ reqs'[r] # reqs[r] =>
                          /\ reqs'[r].pc = "done"
                          /\ resp'.sid = {s} /\ resp'.tool.got = "discarded"
                          /\ UNCHANGED <<transports, servers, sessionTimers,
                                         pending>>
                          /\ s \notin DOMAIN transports'
                          /\ s \notin DOMAIN sessionTimers'
                          /\ \A t \in pending' : t.sid # s]_vars

\* a tool handler completed after the idle timer had evicted its session
C12_Witness ==
    /\ resp.tool.got = "discarded" /\ resp.late = "none"
    /\ \E s \in resp.sid : closedBy[s] = "idle"

\* C13: when what a tool handler calls fails, the client gets an
\* error-marked result in an ordinary response (nothing at all once the
\* session is gone) and never a fault; the step that answers leaves every
\* session, the caller's included, in the registry as it was.
C13_HandlerFailureIsContained ==
    [][\A r \in ReqIds, s \in SessionIds :
          (SuspendedOn(r, s) /\ reqs'[r].pc = "done") =>
              /\ resp'.status = 200
              /\ resp'.tool.got # "fault"
              /\ resp'.tool.failed =>
                    resp'.tool.got = IF closedBy[s] = "none" THEN "error"
                                     ELSE "discarded"
              /\ ~resp'.tool.failed =>
                    resp'.tool.got = IF closedBy[s] = "none" THEN "result"
                                     ELSE "discarded"
              /\ \A u \in SessionIds : SameEntry(u)
              /\ closedBy[s] = "none" => s \in DOMAIN transports']_vars

\* a tool call failed on one session while another session was live
C13_Witness ==
    /\ resp.tool.failed /\ resp.tool.got = "error"
    /\ \E s \in resp.sid, u \in DOMAIN transports :
          s \in DOMAIN transports /\ u # s

\* the attempt whose response is received[i] failed
Failed(i) == query.received[i].kind \in {"network", "http", "graphql"}
\* the query has returned, or thrown
QueryReturned == query.pc = "done" /\ \E o \in query.outcome : ~o.threw
QueryThrew == query.pc = "done" /\ \E o \in query.outcome : o.threw

\* C14: a pool query that returns has sent one request per response it
\* received, the last of them is the only one that did not fail and is what
\* is returned, and before attempt i+1 it waited 1000 * 2^(i-1) ms: 1000 ms
\* and 2000 ms when the third attempt is the one that succeeds.
C14_FirstSuccessReturned ==
    QueryReturned =>
        /\ query.sent = Len(query.received)
        /\ query.sent \in 1..3
        /\ \A i \in 1..(query.sent - 1) : Failed(i)
        /\ query.received[query.sent].kind = "ok"
        /\ \A o \in query.outcome : o.data = {query.received[query.sent]}
        /\ Len(query.waits) = query.sent - 1
        /\ \A i \in 1..Len(query.waits) : query.waits[i] = 1000 * 2 ^ (i - 1)
        /\ query.sent = 3 => query.waits = <<1000, 2000>>

\* two attempts failed and the third returned pools
C14_Witness ==
    /\ QueryReturned /\ query.sent = 3
    /\ \E o \in query.outcome : o.pools # <<>>

\* C15: a pool query whose three attempts fail throws "Failed to fetch ...
\* pools" around "Failed to query subgraph after 3 attempts" around the error
\* of the third attempt; three requests were sent and two waits made, none
\* after the third failure.  No query sends a fourth request.
C15_ThreeFailuresThrow ==
    /\ query.sent <= 3 /\ Len(query.waits) <= 2
    /\ (Len(query.received) = 3 /\ \A i \in 1..3 : Failed(i)) =>
          /\ QueryThrew
          /\ \A o \in query.outcome :
                /\ o.error = "Failed to fetch pools"
                /\ o.cause = "Failed to query subgraph after attempts"
                /\ o.last = query.received[3].kind
          /\ query.sent = 3
          /\ query.waits = <<1000, 2000>>
    /\ (QueryThrew /\ \E o \in query.outcome :
                         o.cause = "Failed to query subgraph after attempts")
          => Len(query.received) = 3 /\ \A i \in 1..3 : Failed(i)

\* three attempts failed, the last one differently from the first
C15_Witness ==
    /\ QueryThrew /\ Len(query.received) = 3
    /\ query.received[1].kind # query.received[3].kind
    /\ \E o \in query.outcome : o.last = "graphql"

\* every character of s is a blank (also when s has none)
IsBlank(s) == \A i \in 1..Len(s) : s[i] = " "
InvalidArguments ==
    \/ IsBlank(query.token0)
    \/ IsBlank(query.token1)
    \/ query.tool = "getUniswapV3Pools"
         /\ query.chain \notin {"Ethereum", "Polygon", "Base", "Arbitrum"}

\* C16: a pool lookup with a blank token0 or token1, or with a chain the
\* query type does not support, has thrown by the time the call suspends or
\* returns: no request was sent and no wait was made.
C16_InvalidArgumentsFailAtOnce ==
    (query.pc # "idle" /\ InvalidArguments) =>
        /\ QueryThrew
        /\ \A o \in query.outcome : o.cause = "" /\ o.data = {}
        /\ query.sent = 0 /\ query.received = <<>> /\ query.waits = <<>>

\* a lookup with a whitespace-only token on a supported chain was refused
C16_Witness ==
    /\ QueryThrew /\ query.sent = 0
    /\ query.token0 = ETH /\ query.token1 = <<" ">> /\ query.chain = "Base"

\* two strings are the same up to the case of their letters
LetterPairs ==
    {<<"u", "U">>, <<"s", "S">>, <<"d", "D">>, <<"c", "C">>, <<"a", "A">>,
     <<"i", "I">>, <<"e", "E">>, <<"t", "T">>, <<"h", "H">>}
SameIgnoringCase(x, y) ==
    /\ Len(x) = Len(y)
    /\ \A i \in 1..Len(x) :
          x[i] = y[i] \/ <<x[i], y[i]>> \in LetterPairs
                      \/ <<y[i], x[i]>> \in LetterPairs

\* a token lookup has returned / has returned without throwing
TokenLookupDone == call.pc = "returned" /\ call.tool = "getTokensBySymbols"
TokenLookupReturned == TokenLookupDone /\ \E o \in call.outcome : ~o.threw

\* the first entry of the token list whose symbol is term up to case
HasEntry(term) ==
    \E i \in 1..Len(disk.catalog) : SameIgnoringCase(disk.catalog[i].symbol, term)
FirstEntry(term) ==
    disk.catalog[CHOOSE i \in 1..Len(disk.catalog) :
                    /\ SameIgnoringCase(disk.catalog[i].symbol, term)
                    /\ \A j \in 1..(i - 1) :
                          ~SameIgnoringCase(disk.catalog[j].symbol, term)]
HasNoEntry(term) == ~HasEntry(term)

\* C17: a token lookup with at least one term, on a chain of the mapping
\* whose list can be read, returns for the terms that have an entry the
\* first such entry each, in the order of the terms, and as the unmatched
\* value the terms that have none, in the order of the terms and joined with
\* ", "; the unmatched value is absent when every term has an entry.
C17_MatchesAndUnmatched ==
    (TokenLookupDone /\ call.terms # <<>>) =>
        LET chain == IF call.chain = {} THEN "Ethereum"
                     ELSE CHOOSE c \in call.chain : TRUE
            list == IF call.list = {} THEN "Coingecko"
                    ELSE CHOOSE l \in call.list : TRUE
            found == SelectSeq(call.terms, HasEntry)
            missing == SelectSeq(call.terms, HasNoEntry)
        IN  /\ (chain \in DOMAIN chainMapping
                  /\ <<list, chainMapping[chain]>> \in disk.tokenFiles)
                  => TokenLookupReturned
            /\ \A o \in call.outcome :
                  ~o.threw =>
                      /\ Len(o.items) = Len(found)
                      /\ \A i \in 1..Len(found) : o.items[i] = FirstEntry(found[i])
                      /\ o.notFound = IF missing = <<>> THEN {}
                                      ELSE {join(missing)}
                      /\ \A res \in call.result :
                            ~res.isError /\ res.content = o

\* of two terms the first has no entry and the second has one under a symbol
\* written in another case
C17_Witness ==
    /\ TokenLookupReturned /\ Len(call.terms) = 2
    /\ \E o \in call.outcome :
          /\ Len(o.items) = 1 /\ o.notFound = {call.terms[1]}
          /\ o.items[1].symbol # call.terms[2]

\* C18 as stated: a token lookup (with at least one term) whose chain name is
\* not a key of the chain mapping throws the unsupported-chain error, and no
\* token list is read during the call.
C18_UnknownChainFailsBeforeRead ==
    (TokenLookupDone /\ call.terms # <<>>) =>
        LET chain == IF call.chain = {} THEN "Ethereum"
                     ELSE CHOOSE c \in call.chain : TRUE
        IN  chain \notin DOMAIN chainMapping =>
                \A o \in call.outcome :
                    o.threw /\ o.error = "Unsupported chain" /\ o.reads = 0

\* C19: terms that differ only in the case of their letters yield the same
\* entry: a lookup whose terms are all the same up to case returns either
\* nothing or one and the same entry for every term; with USDC as the first
\* entry of the list, usdc, USDC and UsDc each return that entry.
C19_CaseInsensitive ==
    TokenLookupReturned =>
        \A o \in call.outcome :
            /\ (\A i, j \in 1..Len(call.terms) :
                    SameIgnoringCase(call.terms[i], call.terms[j]))
                  => \/ o.items = <<>>
                     \/ /\ Len(o.items) = Len(call.terms)
                        /\ \A k \in 1..Len(o.items) : o.items[k] = o.items[1]
            /\ (/\ disk.catalog # <<>>
                /\ disk.catalog[1].symbol = <<"U", "S", "D", "C">>
                /\ \A i \in 1..Len(call.terms) :
                      call.terms[i] \in {<<"u", "s", "d", "c">>,
                                         <<"U", "S", "D", "C">>,
                                         <<"U", "s", "D", "c">>})
                  => /\ Len(o.items) = Len(call.terms)
                     /\ \A k \in 1..Len(o.items) : o.items[k] = disk.catalog[1]

\* usdc and UsDc were looked up together and both returned the entry USDC
C19_Witness ==
    /\ TokenLookupReturned
    /\ call.terms = <<<<"u", "s", "d", "c">>, <<"U", "s", "D", "c">>>>
    /\ \E o \in call.outcome :
          /\ Len(o.items) = 2 /\ o.items[1] = o.items[2]
          /\ o.items[1].symbol = <<"U", "S", "D", "C">>

\* two calls of the same tool with the same arguments
SameLookup(a, b) ==
    /\ a.tool = b.tool /\ a.entry = b.entry /\ a.terms = b.terms
    /\ a.chain = b.chain /\ a.list = b.list /\ a.feedChain = b.feedChain

PoolSet(pools) == {pools[i] : i \in 1..Len(pools)}

\* C21: of two pool lookups that returned, made with the same tool and chain
\* against the same data and with token0 and token1 exchanged, each selected
\* the same set of pools.
C21_PairOrderIrrelevant ==
    \A a, b \in returned :
        (/\ ~a.threw /\ ~b.threw
         /\ a.tool = b.tool /\ a.chain = b.chain
         /\ a.token0 = b.token1 /\ a.token1 = b.token0)
            => PoolSet(a.pools) = PoolSet(b.pools)

\* (ETH, usd) and (usd, ETH) both returned the pool ETH/USDC and the pool
\* USDC/ETH, each of which has the terms on the other sides
C21_Witness ==
    \E a, b \in returned :
        /\ a.token0 = <<"E", "T", "H">> /\ a.token1 = <<"u", "s", "d">>
        /\ b.token0 = a.token1 /\ b.token1 = a.token0 /\ b.tool = a.tool
        /\ ~a.threw /\ ~b.threw
        /\ {a.pools[i].id : i \in 1..Len(a.pools)} = {1, 2}
        /\ {b.pools[i].id : i \in 1..Len(b.pools)} = {1, 2}

\* C22: a step in which /health reports reports the number of sessions that
\* were initialized and not closed since, which is the number of keys of each
\* of the three objects; and that step leaves every entry, every timer and
\* every request as it was.
C22_HealthCountsAndChangesNothing ==
    [][health' # health =>
          /\ health' = {Cardinality({s \in issued : closedBy[s] = "none"})}
          /\ health' = {Cardinality(DOMAIN servers)}
          /\ health' = {Cardinality(DOMAIN sessionTimers)}
          /\ UNCHANGED sessionVars]_vars

\* /health reported one session while one was live and another one closed
C22_Witness ==
    /\ health = {1}
    /\ Cardinality(DOMAIN transports) = 1
    /\ \E s \in SessionIds : closedBy[s] # "none"

\* C23: in the stdio mode one handler instance is created, it is bound once
\* and no second one is created or bound as long as the process lives; the
\* session registry stays empty and no idle timer is armed; and the process
\* exits on SIGINT or SIGTERM only after the transport was closed.
C23_OneHandlerClosedBeforeExit ==
    [][/\ stdio'.pc # "off" => stdio'.instances = 1
       /\ stdio'.connects <= 1
       /\ stdio'.pc = "running" => stdio'.connects = 1
       /\ stdio.pc = "running" => stdio'.pc \in {"running", "closing"}
       /\ (stdio'.arrived # stdio.arrived \/ stdio'.written # stdio.written)
             => stdio'.instances = stdio.instances
                /\ stdio'.connects = stdio.connects
       /\ transports' = Empty /\ servers' = Empty /\ sessionTimers' = Empty
       /\ pending' = {}
       /\ (stdio.pc # "exited" /\ stdio'.pc = "exited" /\ stdio'.signal # {})
             => stdio.closed /\ stdio'.exitCode = {0}]_vars

\* the process served requests and exited on SIGTERM with a pool query
\* still suspended
C23_Witness ==
    /\ stdio.pc = "exited" /\ stdio.signal = {"SIGTERM"} /\ stdio.closed
    /\ stdio.written # <<>> /\ stdio.suspended # {}

\* C28 as stated: on the stdio transport the responses are written in the
\* order in which their requests arrived.
C28_StdioArrivalOrder ==
    \A i, j \in 1..Len(stdio.written) :
        i < j => stdio.written[i] < stdio.written[j]

\* C24 as stated: close() runs at most once on the transport of a session,
\* and no run of cleanupSession nests close() calls until the call stack is
\* exhausted.
C24_ReleasedOnce ==
    /\ \A p \in DOMAIN closeCalls : closeCalls[p] <= 1
    /\ overflows = 0

\* C25 as stated: once the initialization request that constructed a
\* handler/transport pair has been handled, the pair is stored in the
\* registry under its session identifier or it has been closed.
C25_PairRegisteredOrClosed ==
    \A p \in DOMAIN closeCalls :
        reqs[p].pc = "done" =>
            \/ \E s \in DOMAIN transports : transports[s] = p /\ servers[s] = p
            \/ p \notin connected

\* attempt i, which failed, was followed as a failed attempt is: before the
\* third attempt by a wait of 1000 * 2^(i-1) ms and then the next request,
\* at the third attempt by the error of the exhausted retries
TreatedAsFailure(i) ==
    IF i < 3
    THEN /\ Len(query.waits) >= i
         /\ query.waits[i] = 1000 * 2 ^ (i - 1)
         /\ query.sent = i => query.pc = "waiting"
    ELSE /\ QueryThrew /\ query.sent = 3 /\ Len(query.waits) = 2
         /\ \A o \in query.outcome :
               o.cause = "Failed to query subgraph after attempts"

\* C26: an attempt whose response has a success status and a non-empty
\* errors list is followed exactly as an attempt whose request failed on the
\* way, and a body with errors is never what the query returns.
C26_ErrorsListIsFailure ==
    /\ \A i \in 1..Len(query.received) :
          query.received[i].kind \in {"graphql", "network"}
              => TreatedAsFailure(i)
    /\ \A o \in query.outcome : \A d \in o.data : d.kind # "graphql"

\* a body with errors, then a failed request, then pools: the query returned
\* after waits of 1000 and 2000 ms
C26_Witness ==
    /\ QueryReturned /\ Len(query.received) = 3
    /\ query.received[1].kind = "graphql"
    /\ query.received[2].kind = "network"
    /\ query.waits = <<1000, 2000>>

\* C27: while a pool query waits for its backoff, a request that arrives on
\* any other live session is accepted, a request in flight on another
\* session can complete, the steps of requests leave the query as it is and
\* the steps of the query leave every session and every request as they are.
C27_BackoffBlocksNobody ==
    [][query.pc = "waiting" =>
          /\ \A s \in (DOMAIN transports) \ call.sid :
                /\ \A r \in ReqIds :
                      Fresh(r) => ENABLED PostKnown(r, s, FALSE)
                /\ \A r \in ReqIds :
                      (reqs[r].pc = "handling" /\ reqs[r].sid = {s})
                          => ENABLED Complete(r)
          /\ reqs' # reqs => query' = query
          /\ query' # query => UNCHANGED sessionVars]_vars

\* the query of one session is in its second wait and a request of the other
\* session has been answered with a result
C27_Witness ==
    /\ query.pc = "waiting" /\ query.waits = <<1000, 2000>>
    /\ resp.status = 200 /\ resp.tool.got = "result"
    /\ resp.sid # {} /\ resp.sid # call.sid
    /\ resp.sid \subseteq DOMAIN transports

\* the files and the chain of the lookup made last let it go through
LookupCanRead ==
    IF call.tool = "getFeedAddresses"
    THEN /\ disk.feeds.readable
         /\ \A c \in call.feedChain :
               c # <<>> =>
                   \E i \in 1..Len(disk.feeds.entries) :
                       SameIgnoringCase(disk.feeds.entries[i].chain, c)
    ELSE LET chain == IF call.chain = {} THEN "Ethereum"
                      ELSE CHOOSE c \in call.chain : TRUE
             list == IF call.list = {} THEN "Coingecko"
                     ELSE CHOOSE l \in call.list : TRUE
         IN  /\ chain \in DOMAIN chainMapping
             /\ <<list, chainMapping[chain]>> \in disk.tokenFiles

\* the names a term of the lookup made last is matched against
NamesSearched ==
    IF call.tool = "getFeedAddresses"
    THEN {disk.feeds.entries[i].feeds[j].name :
             <<i, j>> \in {x \in (1..Len(disk.feeds.entries)) \X (1..2) :
                 /\ x[2] <= Len(disk.feeds.entries[x[1]].feeds)
                 /\ \A c \in call.feedChain :
                       c # <<>> => SameIgnoringCase(
                                      disk.feeds.entries[x[1]].chain, c)}}
    ELSE {disk.catalog[i].symbol : i \in 1..Len(disk.catalog)}
Unmatched(term) ==
    IsBlank(term) \/ \A n \in NamesSearched : ~SameIgnoringCase(n, term)
Matched(term) == ~Unmatched(term)
NameOf(item) == IF call.tool = "getFeedAddresses" THEN item.name ELSE item.symbol

\* C29: a token or feed lookup with an empty or whitespace-only term among
\* its terms throws only when its file cannot be read or its chain is
\* unknown; otherwise it returns, for the other terms that have an entry, an
\* entry each in the order of the terms, and as the unmatched value the blank
\* terms and the terms without entry, in the order of the terms.
C29_BlankTermsAreUnmatched ==
    (call.pc = "returned"
       /\ \E i \in 1..Len(call.terms) : IsBlank(call.terms[i])) =>
        \A o \in call.outcome :
            /\ o.threw = ~LookupCanRead
            /\ ~o.threw =>
                  LET hits == SelectSeq(call.terms, Matched)
                  IN  /\ o.notFound = {join(SelectSeq(call.terms, Unmatched))}
                      /\ Len(o.items) = Len(hits)
                      /\ \A k \in 1..Len(hits) :
                            SameIgnoringCase(NameOf(o.items[k]), hits[k])
                      /\ \A res \in call.result : ~res.isError

\* a feed lookup for a whitespace-only pair and a pair that has a feed
\* returned the feed and reported the blank pair as unmatched
C29_Witness ==
    /\ call.pc = "returned" /\ call.tool = "getFeedAddresses"
    /\ Len(call.terms) = 2 /\ call.terms[1] = <<" ">>
    /\ \E o \in call.outcome :
          ~o.threw /\ Len(o.items) = 1 /\ o.notFound = {<<" ">>}

\* the places, in the body the query returned, of the pools whose total
\* value locked is a number above 1000 (held in cents)
PlacesAbove(pools) ==
    {i \in 1..Len(pools) :
        \E cents \in pools[i].totalValueLockedUSD : cents > 100000}

\* C30: a pool lookup that returns returns the pools of the body whose total
\* value locked is strictly above 1000, each once and in the order of the
\* body, and no other pool; totalResults is their number.
C30_OnlyPoolsAboveThreshold ==
    QueryReturned =>
        \A o \in query.outcome : \A d \in o.data :
            LET places == PlacesAbove(d.pools)
            IN  /\ Len(o.pools) = Cardinality(places)
                /\ \A k \in 1..Len(o.pools) :
                      \E i \in places :
                          /\ Cardinality({j \in places : j <= i}) = k
                          /\ o.pools[k] = d.pools[i]
                /\ o.metadata.totalResults = Len(o.pools)
                /\ o.metadata.chain = query.chain

\* of a pool just above 1000 and a pool of exactly 1000, only the first was
\* returned
C30_Witness ==
    /\ QueryReturned
    /\ \E o \in query.outcome : \E d \in o.data :
          /\ Len(d.pools) = 2 /\ Len(o.pools) = 1
          /\ d.pools[2].totalValueLockedUSD = {100000}
          /\ o.pools[1].totalValueLockedUSD = {100001}
          /\ o.metadata.totalResults = 1


\* the places, in feeds.json, of the chains that hold a feed whose name is
\* the pair up to case, and the places of such feeds within a chain
ChainsHolding(pair) ==
    {i \in 1..Len(disk.feeds.entries) :
        \E j \in 1..Len(disk.feeds.entries[i].feeds) :
            SameIgnoringCase(disk.feeds.entries[i].feeds[j].name, pair)}
FeedsNamed(i, pair) ==
    {j \in 1..Len(disk.feeds.entries[i].feeds) :
        SameIgnoringCase(disk.feeds.entries[i].feeds[j].name, pair)}
Least(S) == CHOOSE i \in S : \A j \in S : i <= j
HeldSomewhere(pair) == ChainsHolding(pair) # {}
HeldNowhere(pair) == ChainsHolding(pair) = {}
\* a feed lookup without chain has returned without throwing
FeedLookupAnyChain ==
    /\ call.pc = "returned" /\ call.tool = "getFeedAddresses"
    /\ call.feedChain = {}
    /\ \E o \in call.outcome : ~o.threw

\* C31: a feed lookup without chain returns, for each pair that some chain
\* holds up to case, exactly one feed, in the order of the pairs: the first
\* such feed of the first chain of feeds.json that holds the pair, tagged
\* with that chain; the pairs no chain holds are the unmatched value.
C31_FirstChainWins ==
    FeedLookupAnyChain =>
        \A o \in call.outcome :
            LET hits == SelectSeq(call.terms, HeldSomewhere)
            IN  /\ Len(o.items) = Len(hits)
                /\ \A k \in 1..Len(hits) :
                      LET i == Least(ChainsHolding(hits[k]))
                          f == disk.feeds.entries[i].feeds[
                                   Least(FeedsNamed(i, hits[k]))]
                      IN  o.items[k] =
                              [name |-> f.name,
                               proxyAddress |-> f.proxyAddress,
                               chain |-> disk.feeds.entries[i].chain]
                /\ o.notFound =
                      LET misses == SelectSeq(call.terms, HeldNowhere)
                      IN  IF misses = <<>> THEN {} ELSE {join(misses)}

\* a lookup without chain for a pair that two chains hold and a pair that
\* only the second chain holds returned one feed each, the first from the
\* first chain
C31_Witness ==
    /\ FeedLookupAnyChain
    /\ Cardinality(ChainsHolding(call.terms[1])) = 2
    /\ Len(call.terms) = 2 /\ ChainsHolding(call.terms[2]) = {2}
    /\ \E o \in call.outcome :
          /\ Len(o.items) = 2
          /\ o.items[1].chain = disk.feeds.entries[1].chain
          /\ o.items[2].chain = disk.feeds.entries[2].chain

\* a lookup of the HTTP server with an empty list of terms has returned
EmptyLookupDone ==
    call.pc = "returned" /\ call.entry = "http" /\ call.terms = <<>>

\* C37: in the HTTP server a token lookup with no symbols and a feed lookup
\* with no pairs throw "... array cannot be empty" whatever the chain, the
\* list and the files are, without a file having been read; the caller gets
\* that message as an error-marked result.
C37_EmptyListFailsFirst ==
    EmptyLookupDone =>
        \A o \in call.outcome :
            /\ o.threw /\ o.reads = 0
            /\ o.error = IF call.tool = "getFeedAddresses"
                         THEN "Pairs array cannot be empty"
                         ELSE "Symbols array cannot be empty"
            /\ \A res \in call.result :
                  res.isError /\ res.content = [error |-> o.error]

\* a feed lookup with no pairs, for a chain feeds.json would not have and
\* with feeds.json unreadable, failed on the empty list
C37_Witness ==
    /\ EmptyLookupDone /\ call.tool = "getFeedAddresses"
    /\ ~disk.feeds.readable /\ call.feedChain = {<<"d", "a", "i">>}
    /\ \E o \in call.outcome : o.threw /\ o.reads = 0

\* request r arrives in the step; the session header it carries and whether
\* its body is an initialization request, as the step recorded them
ArrivesNow(r) == reqs[r].pc = "new" /\ reqs'[r].pc # "new"
HeaderOf(r) == IF reqs'[r].pc = "done" THEN resp'.sid ELSE reqs'[r].sid
IsInitOf(r) == IF reqs'[r].pc = "done" THEN resp'.init ELSE reqs'[r].init

TimersOf(s) == {t \in pending : t.sid = s}

Removed(s) == s \in issued /\ s \notin DOMAIN transports

\* C34: an identifier that has left the registry has no entry and no timer
\* after any step (a request, a timer firing, a close of a transport, the
\* completion of a handler in flight), and a request that arrives naming it
\* is answered 400 at once.
C34_RemovedStaysRemoved ==
    [][\A s \in SessionIds :
          Removed(s) =>
              /\ Removed(s)'
              /\ s \notin DOMAIN servers' /\ s \notin DOMAIN sessionTimers'
              /\ \A t \in pending' : t.sid # s
              /\ \A r \in ReqIds :
                    (ArrivesNow(r) /\ HeaderOf(r) = {s}) =>
                        reqs'[r].pc = "done" /\ resp'.status = 400]_vars

\* after the transport of a session closed on its own, a later session was
\* created under another identifier and a request naming the removed one
\* was answered 400
C34_Witness ==
    \E s \in SessionIds, u \in DOMAIN transports :
        /\ closedBy[s] = "transport" /\ Removed(s)
        /\ u > s
        /\ resp.sid = {s} /\ resp.status = 400

\* C32 as stated: every OPTIONS request is answered 200, whatever session
\* header and body it carries, and the step that answers it leaves the
\* registry, the timers and the requests in flight as they are.
C32_PreflightAlwaysSucceeds ==
    [][httpd'.preflight # httpd.preflight =>
          /\ httpd'.preflight = {200}
          /\ UNCHANGED sessionVars]_vars

\* C33 as stated: when the process of the HTTP mode has exited after a
\* signal, the three objects of the registry are empty and no idle timer is
\* armed.
C33_RegistryEmptyAtExit ==
    (httpd.pc = "exited" /\ httpd.signal # {}) =>
        /\ transports = Empty /\ servers = Empty /\ sessionTimers = Empty
        /\ pending = {}
====
